---- MODULE Spec2Model ----
(***************************************************************************)
(* A state-machine model of C-TurtleGraphics (src/Src/*.c).                *)
(*                                                                         *)
(* Numbers.  The program computes in C floats; the model computes in       *)
(* fixed point:                                                            *)
(*   - time in milliseconds (the unit of SDL_GetTicks), so deltaTime in    *)
(*     seconds is dt/1000;                                                 *)
(*   - headings in thousandths of a degree, so that                        *)
(*     ROTATION_INCREMENT * deltaTime is the integer 90 * dt;              *)
(*   - positions in whole window units, a displacement being rounded to    *)
(*     the nearest unit;                                                   *)
(*   - cos and sin from a table in thousandths, for headings that are      *)
(*     multiples of 45 degrees (every frame time the model draws is a      *)
(*     multiple of 500 ms, which keeps headings on that grid);             *)
(*   - colour components 0.0f / 1.0f as 0 / 1.                             *)
(***************************************************************************)
EXTENDS Integers, Sequences, FiniteSets, TLC

VARIABLES
    pc,            \* position of main(): the next statement to run
    exitCode,      \* process exit status once pc = "exited", else -1
    running,       \* main.c: bool running
    acquired,      \* resources acquired so far, in order of acquisition
    released,      \* release calls made so far, in order
    failedStep,    \* the first startup step whose operation failed, "" if none
    stepsRun,      \* the startup steps executed so far, in order
    windowWidth,   \* main.c: int windowWidth
    windowHeight,  \* main.c: int windowHeight
    projection,    \* the GL_PROJECTION matrix in force: <<w, h>> of gluOrtho2D(0,w,h,0)
    sprite,        \* sprite.c: Sprite sprite
    keyLeftPressed, keyRightPressed, keyUpPressed,   \* events.c statics
    lines,         \* graphics.c: the segments stored in lines[0..lineCount-1]
    lineCount,     \* graphics.c: int lineCount
    lineCapacity,  \* graphics.c: int lineCapacity
    linesAlloc,    \* whether lines points to an allocated buffer
    lastTime,      \* main.c: static Uint32 lastTime
    pending,       \* the host's queue of events not yet polled
    frames,        \* number of calls of handle_events since the initial state
    screen,        \* what the last render_scene drew
    call           \* the arguments of the last call of a function run on its own

vars == <<pc, exitCode, running, acquired, released, failedStep, stepsRun, windowWidth,
          windowHeight, projection, sprite, keyLeftPressed, keyRightPressed,
          keyUpPressed, lines, lineCount, lineCapacity, linesAlloc, lastTime,
          pending, frames, screen, call>>

resourceVars == <<acquired, released, failedStep, stepsRun>>
windowVars == <<windowWidth, windowHeight, projection>>
keyVars == <<keyLeftPressed, keyRightPressed, keyUpPressed>>
trailVars == <<lines, lineCount, lineCapacity, linesAlloc>>

-----------------------------------------------------------------------------
(* Bounds of the model *)

\* handle_events is called at most MaxFrames times
MaxFrames == 2
\* the host queues at most MaxQueue events between two polls
MaxQueue == 2

(* Program constants *)
WINDOW_WIDTH == 800
WINDOW_HEIGHT == 800
ROTATION_INCREMENT == 90
MOVE_INCREMENT == 200
halfWidth == 25
halfHeight == 25
INITIAL_LINE_CAPACITY == 50

\* d degrees in the model's unit of heading
Deg(d) == d * 1000

-----------------------------------------------------------------------------
(* Arithmetic of <math.h>, in fixed point *)

\* fmodf(a, m) for m > 0: the remainder of a/m truncated toward zero, so the
\* result has the sign of a
fmodf(a, m) == IF a >= 0 THEN a % m ELSE -((-a) % m)

\* n/d rounded to the nearest integer (halves away from zero), d > 0
RoundDiv(n, d) == IF n >= 0 THEN (n + d \div 2) \div d ELSE -((-n + d \div 2) \div d)

\* 1000 * cos and 1000 * sin of a heading that is a multiple of 45 degrees;
\* cos and sin are periodic, so a negative heading is reduced first
CosTable == <<1000, 707, 0, -707, -1000, -707, 0, 707>>
SinTable == <<0, 707, 1000, 707, 0, -707, -1000, -707>>
cos(a) == CosTable[((a % Deg(360)) \div Deg(45)) + 1]
sin(a) == SinTable[((a % Deg(360)) \div Deg(45)) + 1]

-----------------------------------------------------------------------------
(* sprite.c *)

\* main.c 165-171 sets every field but turn, which no code reads
SpriteZero == [x |-> 0, y |-> 0, angle |-> 0, pen |-> FALSE, r |-> 0, g |-> 0, b |-> 0]

\* update_location without its two else-if branches: the right and bottom
\* edges are not checked
update_location_no_far_edge(s, dt, w, h) ==
    LET deltaX == RoundDiv(MOVE_INCREMENT * cos(s.angle) * dt, 1000 * 1000)
        deltaY == RoundDiv((-MOVE_INCREMENT) * sin(s.angle) * dt, 1000 * 1000)
        newX0 == s.x + deltaX
        newY0 == s.y + deltaY
        newX == IF newX0 - halfWidth < 0 THEN halfWidth ELSE newX0
        newY == IF newY0 - halfHeight < 0 THEN halfHeight ELSE newY0
    IN  [s EXCEPT !.x = newX, !.y = newY]

\* update_location with deltaY not negated: y grows with the sine
update_location_y_up(s, dt, w, h) ==
    LET deltaX == RoundDiv(MOVE_INCREMENT * cos(s.angle) * dt, 1000 * 1000)
        deltaY == RoundDiv(MOVE_INCREMENT * sin(s.angle) * dt, 1000 * 1000)
        newX0 == s.x + deltaX
        newY0 == s.y + deltaY
        newX == IF newX0 - halfWidth < 0 THEN halfWidth
                ELSE IF newX0 + halfWidth > w THEN w - halfWidth
                ELSE newX0
        newY == IF newY0 - halfHeight < 0 THEN halfHeight
                ELSE IF newY0 + halfHeight > h THEN h - halfHeight
                ELSE newY0
    IN  [s EXCEPT !.x = newX, !.y = newY]

\* update_location(deltaTime, windowWidth, windowHeight) applied to sprite s
update_location(s, dt, w, h) ==
    LET deltaX == RoundDiv(MOVE_INCREMENT * cos(s.angle) * dt, 1000 * 1000)
        deltaY == RoundDiv((-MOVE_INCREMENT) * sin(s.angle) * dt, 1000 * 1000)
        newX0 == s.x + deltaX
        newY0 == s.y + deltaY
        newX == IF newX0 - halfWidth < 0 THEN halfWidth
                ELSE IF newX0 + halfWidth > w THEN w - halfWidth
                ELSE newX0
        newY == IF newY0 - halfHeight < 0 THEN halfHeight
                ELSE IF newY0 + halfHeight > h THEN h - halfHeight
                ELSE newY0
    IN  [s EXCEPT !.x = newX, !.y = newY]

\* update_pen(pen_state)
update_pen(s, pen_state) == [s EXCEPT !.pen = pen_state]

\* change_color setting white where the palette has yellow
change_color_white_for_yellow(s, color_option) ==
    CASE color_option = 1 -> [s EXCEPT !.r = 0, !.g = 0, !.b = 0]
      [] color_option = 2 -> [s EXCEPT !.r = 0, !.g = 0, !.b = 1]
      [] color_option = 3 -> [s EXCEPT !.r = 1, !.g = 0, !.b = 0]
      [] color_option = 4 -> [s EXCEPT !.r = 0, !.g = 1, !.b = 0]
      [] color_option = 5 -> [s EXCEPT !.r = 1, !.g = 1, !.b = 1]
      [] OTHER -> s

\* change_color whose default branch resets the colour to black
change_color_default_black(s, color_option) ==
    CASE color_option = 2 -> [s EXCEPT !.r = 0, !.g = 0, !.b = 1]
      [] color_option = 3 -> [s EXCEPT !.r = 1, !.g = 0, !.b = 0]
      [] color_option = 4 -> [s EXCEPT !.r = 0, !.g = 1, !.b = 0]
      [] color_option = 5 -> [s EXCEPT !.r = 1, !.g = 1, !.b = 0]
      [] OTHER -> [s EXCEPT !.r = 0, !.g = 0, !.b = 0]

\* change_color(color_option); the default branch only prints
change_color(s, color_option) ==
    CASE color_option = 1 -> [s EXCEPT !.r = 0, !.g = 0, !.b = 0]
      [] color_option = 2 -> [s EXCEPT !.r = 0, !.g = 0, !.b = 1]
      [] color_option = 3 -> [s EXCEPT !.r = 1, !.g = 0, !.b = 0]
      [] color_option = 4 -> [s EXCEPT !.r = 0, !.g = 1, !.b = 0]
      [] color_option = 5 -> [s EXCEPT !.r = 1, !.g = 1, !.b = 0]
      [] OTHER -> s

-----------------------------------------------------------------------------
(* graphics.c: the trail *)

\* The Line that add_line(x1, y1, x2, y2) writes, coloured from sprite s
NewLine(x1, y1, x2, y2, s) ==
    [x1 |-> x1, y1 |-> y1, x2 |-> x2, y2 |-> y2, r |-> s.r, g |-> s.g, b |-> s.b]

\* add_line growing the buffer one append late, when the count has passed
\* the capacity
add_line_grows_late(t, x1, y1, x2, y2, s, reallocOk) ==
    LET full == t.lineCount > t.lineCapacity
        cap == IF full THEN t.lineCapacity * 2 ELSE t.lineCapacity
    IN  IF full /\ ~reallocOk
        THEN [t EXCEPT !.lineCapacity = cap, !.alive = FALSE]
        ELSE [lines |-> Append(t.lines, NewLine(x1, y1, x2, y2, s)),
              lineCount |-> t.lineCount + 1,
              lineCapacity |-> cap,
              alive |-> TRUE]

\* add_line going on after a failed realloc: the segment is stored behind
\* the end of the buffer it still has
add_line_ignores_failure(t, x1, y1, x2, y2, s, reallocOk) ==
    LET full == t.lineCount >= t.lineCapacity
        cap == IF full /\ reallocOk THEN t.lineCapacity * 2 ELSE t.lineCapacity
    IN  [lines |-> Append(t.lines, NewLine(x1, y1, x2, y2, s)),
         lineCount |-> t.lineCount + 1,
         lineCapacity |-> cap,
         alive |-> TRUE]

\* add_line growing the buffer with a fresh allocation instead of realloc:
\* the segments stored so far are not carried over
add_line_growth_drops(t, x1, y1, x2, y2, s, reallocOk) ==
    LET full == t.lineCount >= t.lineCapacity
        cap == IF full THEN t.lineCapacity * 2 ELSE t.lineCapacity
    IN  IF full /\ ~reallocOk
        THEN [t EXCEPT !.lineCapacity = cap, !.alive = FALSE]
        ELSE [lines |-> Append(IF full
                               THEN [i \in 1..t.lineCount |->
                                        NewLine(0, 0, 0, 0, SpriteZero)]
                               ELSE t.lines,
                               NewLine(x1, y1, x2, y2, s)),
              lineCount |-> t.lineCount + 1,
              lineCapacity |-> cap,
              alive |-> TRUE]

\* add_line on the trail t = [lines, lineCount, lineCapacity, alive]; reallocOk
\* is the outcome of realloc when the buffer is full. A failed realloc frees
\* the buffer and calls exit(1): alive becomes FALSE and nothing is stored.
add_line(t, x1, y1, x2, y2, s, reallocOk) ==
    LET full == t.lineCount >= t.lineCapacity
        cap == IF full THEN t.lineCapacity * 2 ELSE t.lineCapacity
    IN  IF full /\ ~reallocOk
        THEN [t EXCEPT !.lineCapacity = cap, !.alive = FALSE]
        ELSE [lines |-> Append(t.lines, NewLine(x1, y1, x2, y2, s)),
              lineCount |-> t.lineCount + 1,
              lineCapacity |-> cap,
              alive |-> TRUE]

-----------------------------------------------------------------------------
(* graphics.c and text.c: the frame render_scene draws *)

\* the chain of conditionals with the tests for blue and red exchanged
ColorName_blue_red_swapped(s) ==
    IF s.r = 0 /\ s.g = 0 /\ s.b = 0 THEN "Black"
    ELSE IF s.r = 1 /\ s.g = 0 /\ s.b = 0 THEN "Blue"
    ELSE IF s.r = 0 /\ s.g = 0 /\ s.b = 1 THEN "Red"
    ELSE IF s.r = 0 /\ s.g = 1 /\ s.b = 0 THEN "Green"
    ELSE IF s.r = 1 /\ s.g = 1 /\ s.b = 0 THEN "Yellow"
    ELSE "Custom"

\* the colour name of the status text: the chain of conditionals of
\* graphics.c 282-287
ColorName(s) ==
    IF s.r = 0 /\ s.g = 0 /\ s.b = 0 THEN "Black"
    ELSE IF s.r = 0 /\ s.g = 0 /\ s.b = 1 THEN "Blue"
    ELSE IF s.r = 1 /\ s.g = 0 /\ s.b = 0 THEN "Red"
    ELSE IF s.r = 0 /\ s.g = 1 /\ s.b = 0 THEN "Green"
    ELSE IF s.r = 1 /\ s.g = 1 /\ s.b = 0 THEN "Yellow"
    ELSE "Custom"

\* statusText after strtok has split it at the newlines: the four lines,
\* each as its label and the values printed into it
StatusLines(s) ==
    << <<"Position", s.x, s.y>>,
       <<"Angle", s.angle>>,
       <<"Pen", IF s.pen THEN "Down" ELSE "Up">>,
       <<"Line Color", ColorName(s)>> >>

\* what render_text gives back for one line: texture 0 when the text could
\* not be rasterized or converted, else a texture with the surface's size.
\* lineWidth and lineHeight are 0 before the call and stay 0 on failure.
TextFailed == [id |-> 0, w |-> 0, h |-> 0]
TextSurface(w, h) == [id |-> 1, w |-> w, h |-> h]

\* the loop over linesText leaving the room of a 14-unit line for a line
\* that could not be rasterized
RECURSIVE DrawText_blank_for_failed(_, _, _, _)
DrawText_blank_for_failed(linesText, rendered, i, textY) ==
    IF i > Len(linesText) THEN <<>>
    ELSE IF rendered[i].id # 0
         THEN <<[line |-> i, text |-> linesText[i], x |-> 10, y |-> textY,
                 w |-> rendered[i].w, h |-> rendered[i].h]>>
              \o DrawText_blank_for_failed(linesText, rendered, i + 1,
                                           textY + rendered[i].h + 2)
         ELSE DrawText_blank_for_failed(linesText, rendered, i + 1, textY + 14 + 2)

\* the loop over linesText of graphics.c 321-363: the quads drawn for the
\* lines from i on, rendered[i] being render_text's answer for line i
RECURSIVE DrawText(_, _, _, _)
DrawText(linesText, rendered, i, textY) ==
    IF i > Len(linesText) THEN <<>>
    ELSE LET lineTextureID == rendered[i].id
             lineWidth == rendered[i].w
             lineHeight == rendered[i].h
         IN  IF lineTextureID # 0
             THEN <<[line |-> i, text |-> linesText[i], x |-> 10, y |-> textY,
                     w |-> lineWidth, h |-> lineHeight]>>
                  \o DrawText(linesText, rendered, i + 1, textY + lineHeight + 2)
             ELSE DrawText(linesText, rendered, i + 1, textY)

\* the draw calls of render_scene before the status text: one per segment,
\* by its index, in the loop of graphics.c 209-213, then the sprite's quad
DrawCalls(t) ==
    [i \in 1..t.lineCount |-> [draw |-> "segment", n |-> i]]
        \o <<[draw |-> "sprite", n |-> 0]>>

\* render_scene drawing the sprite first and the trail over it, newest
\* segment first
render_scene_trail_on_top(s, t, proj, w, h, rendered) ==
    [drawn |-> [i \in 1..t.lineCount |-> t.lines[t.lineCount + 1 - i]],
     calls |-> <<[draw |-> "sprite", n |-> 0]>>
                   \o [i \in 1..t.lineCount |->
                          [draw |-> "segment", n |-> t.lineCount + 1 - i]],
     proj |-> proj,
     at |-> <<s.x, s.y>>,
     rotation |-> -s.angle,
     status |-> StatusLines(s),
     textProj |-> <<w, h>>,
     rasterized |-> [i \in 1..Len(StatusLines(s)) |-> rendered[i].id # 0],
     text |-> DrawText(StatusLines(s), rendered, 1, 10)]

\* render_scene(windowWidth, windowHeight): the segments in order, the
\* sprite rotated by -angle, both under the projection in force, then the
\* status text under a projection of the window's size; rasterized tells for
\* each line of the text whether render_text gave a texture. It reads the
\* sprite and the trail and assigns neither.
render_scene(s, t, proj, w, h, rendered) ==
    [drawn |-> [i \in 1..t.lineCount |-> t.lines[i]],
     calls |-> DrawCalls(t),
     proj |-> proj,
     at |-> <<s.x, s.y>>,
     rotation |-> -s.angle,
     status |-> StatusLines(s),
     textProj |-> <<w, h>>,
     rasterized |-> [i \in 1..Len(StatusLines(s)) |-> rendered[i].id # 0],
     text |-> DrawText(StatusLines(s), rendered, 1, 10)]

-----------------------------------------------------------------------------
(* events.c *)

\* An SDL_Event as far as handle_events reads it: type, key.keysym.sym,
\* window.event, window.data1, window.data2
Event(type, sym, wev, d1, d2) ==
    [type |-> type, sym |-> sym, event |-> wev, data1 |-> d1, data2 |-> d2]
Quit == Event("SDL_QUIT", "", "", 0, 0)
KeyDown(sym) == Event("SDL_KEYDOWN", sym, "", 0, 0)
KeyUp(sym) == Event("SDL_KEYUP", sym, "", 0, 0)
Resized(w, h) == Event("SDL_WINDOWEVENT", "", "RESIZED", w, h)
\* a window event other than a resize (here: the window was exposed)
Exposed == Event("SDL_WINDOWEVENT", "", "EXPOSED", 0, 0)
\* an event of a type handle_events has no case for
MouseMotion == Event("SDL_MOUSEMOTION", "", "", 0, 0)

\* what the SDL_KEYDOWN case does to the input state c =
\* [sprite, left, right, up, w, h, proj]; Escape is handled by the caller
OnKeyDown(c, sym) ==
    CASE sym = "RIGHT" -> [c EXCEPT !.right = TRUE]
      [] sym = "LEFT" -> [c EXCEPT !.left = TRUE]
      [] sym = "UP" -> [c EXCEPT !.up = TRUE]
      [] sym = "d" -> [c EXCEPT !.sprite = update_pen(c.sprite, TRUE)]
      [] sym = "u" -> [c EXCEPT !.sprite = update_pen(c.sprite, FALSE)]
      [] sym = "1" -> [c EXCEPT !.sprite = change_color(c.sprite, 1)]
      [] sym = "2" -> [c EXCEPT !.sprite = change_color(c.sprite, 2)]
      [] sym = "3" -> [c EXCEPT !.sprite = change_color(c.sprite, 3)]
      [] sym = "4" -> [c EXCEPT !.sprite = change_color(c.sprite, 4)]
      [] sym = "5" -> [c EXCEPT !.sprite = change_color(c.sprite, 5)]
      [] OTHER -> c

\* the SDL_KEYUP case lifting the pen when D is released
OnKeyUp_lifts_pen(c, sym) ==
    CASE sym = "RIGHT" -> [c EXCEPT !.right = FALSE]
      [] sym = "LEFT" -> [c EXCEPT !.left = FALSE]
      [] sym = "UP" -> [c EXCEPT !.up = FALSE]
      [] sym = "d" -> [c EXCEPT !.sprite = update_pen(c.sprite, FALSE)]
      [] OTHER -> c

\* the SDL_KEYUP case clearing no flag
OnKeyUp_ignored(c, sym) == c

\* the SDL_KEYUP case
OnKeyUp(c, sym) ==
    CASE sym = "RIGHT" -> [c EXCEPT !.right = FALSE]
      [] sym = "LEFT" -> [c EXCEPT !.left = FALSE]
      [] sym = "UP" -> [c EXCEPT !.up = FALSE]
      [] OTHER -> c

\* the SDL_WINDOWEVENT case storing the new size without the calls of
\* glViewport and gluOrtho2D
OnWindowEvent_keeps_projection(c, evt) ==
    IF evt.event = "RESIZED"
    THEN [c EXCEPT !.w = evt.data1, !.h = evt.data2]
    ELSE c

\* the SDL_WINDOWEVENT case without the test for SDL_WINDOWEVENT_RESIZED:
\* every window event stores its two data words as the size
OnWindowEvent_any_window_event(c, evt) ==
    [c EXCEPT !.w = evt.data1, !.h = evt.data2, !.proj = <<evt.data1, evt.data2>>]

\* the SDL_WINDOWEVENT case: a resize stores the new size and resets the
\* viewport and the projection to it
OnWindowEvent(c, evt) ==
    IF evt.event = "RESIZED"
    THEN [c EXCEPT !.w = evt.data1, !.h = evt.data2, !.proj = <<evt.data1, evt.data2>>]
    ELSE c

\* the poll loop without the SDLK_ESCAPE case: Escape is a key like any other
RECURSIVE PollEvents_escape_ignored(_, _)
PollEvents_escape_ignored(q, c) ==
    IF q = <<>> THEN [c |-> c, rest |-> <<>>, quit |-> FALSE]
    ELSE LET evt == Head(q) IN
         CASE evt.type = "SDL_QUIT" -> [c |-> c, rest |-> Tail(q), quit |-> TRUE]
           [] evt.type = "SDL_KEYDOWN" ->
                PollEvents_escape_ignored(Tail(q), OnKeyDown(c, evt.sym))
           [] evt.type = "SDL_KEYUP" ->
                PollEvents_escape_ignored(Tail(q), OnKeyUp(c, evt.sym))
           [] evt.type = "SDL_WINDOWEVENT" ->
                PollEvents_escape_ignored(Tail(q), OnWindowEvent(c, evt))
           [] OTHER -> PollEvents_escape_ignored(Tail(q), c)

\* the while (SDL_PollEvent(&evt)) loop on the queue q: the input state it
\* leaves, the events it left in the queue, and whether it returned false
RECURSIVE PollEvents(_, _)
PollEvents(q, c) ==
    IF q = <<>> THEN [c |-> c, rest |-> <<>>, quit |-> FALSE]
    ELSE LET evt == Head(q) IN
         CASE evt.type = "SDL_QUIT" -> [c |-> c, rest |-> Tail(q), quit |-> TRUE]
           [] evt.type = "SDL_KEYDOWN" ->
                IF evt.sym = "ESCAPE"
                THEN [c |-> c, rest |-> Tail(q), quit |-> TRUE]
                ELSE PollEvents(Tail(q), OnKeyDown(c, evt.sym))
           [] evt.type = "SDL_KEYUP" -> PollEvents(Tail(q), OnKeyUp(c, evt.sym))
           [] evt.type = "SDL_WINDOWEVENT" -> PollEvents(Tail(q), OnWindowEvent(c, evt))
           [] OTHER -> PollEvents(Tail(q), c)

\* "Update rotation" turning by the increment of one second in every frame,
\* whatever deltaTime is
UpdateRotation_unscaled(c, dt) ==
    LET a1 == IF c.left
              THEN fmodf(c.sprite.angle + ROTATION_INCREMENT * 1000, Deg(360))
              ELSE c.sprite.angle
        a2 == IF c.right
              THEN fmodf(a1 - ROTATION_INCREMENT * 1000 + Deg(360), Deg(360))
              ELSE a1
    IN  [c EXCEPT !.sprite.angle = a2]

\* "Update rotation": the two if statements after the loop
UpdateRotation(c, dt) ==
    LET a1 == IF c.left
              THEN fmodf(c.sprite.angle + ROTATION_INCREMENT * dt, Deg(360))
              ELSE c.sprite.angle
        a2 == IF c.right
              THEN fmodf(a1 - ROTATION_INCREMENT * dt + Deg(360), Deg(360))
              ELSE a1
    IN  [c EXCEPT !.sprite.angle = a2]

\* "Update position" reading previous_x and previous_y after the call of
\* update_location: the segment starts at the new position
UpdatePosition_previous_read_late(c, t, dt, reallocOk) ==
    IF c.up
    THEN LET moved == update_location(c.sprite, dt, c.w, c.h)
             previous_x == moved.x
             previous_y == moved.y
         IN  [c |-> [c EXCEPT !.sprite = moved],
              t |-> IF moved.pen
                    THEN add_line(t, previous_x, previous_y, moved.x, moved.y,
                                  moved, reallocOk)
                    ELSE t]
    ELSE [c |-> c, t |-> t]

\* "Update position" with the test of sprite.pen inverted
UpdatePosition_pen_inverted(c, t, dt, reallocOk) ==
    IF c.up
    THEN LET moved == update_location(c.sprite, dt, c.w, c.h)
         IN  [c |-> [c EXCEPT !.sprite = moved],
              t |-> IF ~c.sprite.pen
                    THEN add_line(t, c.sprite.x, c.sprite.y, moved.x, moved.y, moved,
                                  reallocOk)
                    ELSE t]
    ELSE [c |-> c, t |-> t]

\* "Update position" without the test of sprite.pen
UpdatePosition_ignores_pen(c, t, dt, reallocOk) ==
    IF c.up
    THEN LET moved == update_location(c.sprite, dt, c.w, c.h)
         IN  [c |-> [c EXCEPT !.sprite = moved],
              t |-> add_line(t, c.sprite.x, c.sprite.y, moved.x, moved.y, moved,
                             reallocOk)]
    ELSE [c |-> c, t |-> t]

\* "Update position": the input state and the trail after the
\* if (keyUpPressed) statement
UpdatePosition(c, t, dt, reallocOk) ==
    IF c.up
    THEN LET previous_x == c.sprite.x
             previous_y == c.sprite.y
             moved == update_location(c.sprite, dt, c.w, c.h)
         IN  [c |-> [c EXCEPT !.sprite = moved],
              t |-> IF moved.pen
                    THEN add_line(t, previous_x, previous_y, moved.x, moved.y,
                                  moved, reallocOk)
                    ELSE t]
    ELSE [c |-> c, t |-> t]

\* handle_events with the position block before the rotation block: the
\* sprite moves along the heading of the frame before
handle_events_moves_before_turning(c, t, q, dt, reallocOk) ==
    LET polled == PollEvents(q, c)
        moved == UpdatePosition(polled.c, t, dt, reallocOk)
    IN  IF polled.quit
        THEN [c |-> polled.c, t |-> t, rest |-> polled.rest, ret |-> FALSE]
        ELSE [c |-> UpdateRotation(moved.c, dt), t |-> moved.t,
              rest |-> polled.rest, ret |-> TRUE]

\* handle_events noting the quit request and still turning and moving the
\* sprite before it returns false
handle_events_moves_on_quit(c, t, q, dt, reallocOk) ==
    LET polled == PollEvents(q, c)
        moved == UpdatePosition(UpdateRotation(polled.c, dt), t, dt, reallocOk)
    IN  [c |-> moved.c, t |-> moved.t, rest |-> polled.rest, ret |-> ~polled.quit]

\* handle_events polling the newest event first, so that of two events of a
\* kind the older one is applied last
handle_events_newest_first(c, t, q, dt, reallocOk) ==
    LET polled == PollEvents([i \in 1..Len(q) |-> q[Len(q) + 1 - i]], c)
        moved == UpdatePosition(UpdateRotation(polled.c, dt), t, dt, reallocOk)
    IN  IF polled.quit
        THEN [c |-> polled.c, t |-> t, rest |-> polled.rest, ret |-> FALSE]
        ELSE [c |-> moved.c, t |-> moved.t, rest |-> polled.rest, ret |-> TRUE]

\* handle_events with the segment coloured as the sprite was before the
\* events of this call were applied
handle_events_stale_color(c, t, q, dt, reallocOk) ==
    LET polled == PollEvents(q, c)
        old == [polled.c EXCEPT !.sprite.r = c.sprite.r, !.sprite.g = c.sprite.g,
                                !.sprite.b = c.sprite.b]
        moved == UpdatePosition(UpdateRotation(old, dt), t, dt, reallocOk)
        new == [moved.c EXCEPT !.sprite.r = polled.c.sprite.r,
                               !.sprite.g = polled.c.sprite.g,
                               !.sprite.b = polled.c.sprite.b]
    IN  IF polled.quit
        THEN [c |-> polled.c, t |-> t, rest |-> polled.rest, ret |-> FALSE]
        ELSE [c |-> new, t |-> moved.t, rest |-> polled.rest, ret |-> TRUE]

\* handle_events with update_location given the window size read before the
\* events of this call were applied
handle_events_clamps_to_old_size(c, t, q, dt, reallocOk) ==
    LET polled == PollEvents(q, c)
        old == [polled.c EXCEPT !.w = c.w, !.h = c.h]
        moved == UpdatePosition(UpdateRotation(old, dt), t, dt, reallocOk)
        new == [moved.c EXCEPT !.w = polled.c.w, !.h = polled.c.h]
    IN  IF polled.quit
        THEN [c |-> polled.c, t |-> t, rest |-> polled.rest, ret |-> FALSE]
        ELSE [c |-> new, t |-> moved.t, rest |-> polled.rest, ret |-> TRUE]

\* handle_events(deltaTime, &windowWidth, &windowHeight) on the queue q:
\* ret is the value returned; when the trail is no longer alive the call
\* did not return (exit(1) inside add_line)
handle_events(c, t, q, dt, reallocOk) ==
    LET polled == PollEvents(q, c)
        moved == UpdatePosition(UpdateRotation(polled.c, dt), t, dt, reallocOk)
    IN  IF polled.quit
        THEN [c |-> polled.c, t |-> t, rest |-> polled.rest, ret |-> FALSE]
        ELSE [c |-> moved.c, t |-> moved.t, rest |-> polled.rest, ret |-> TRUE]

-----------------------------------------------------------------------------
(* The host: windowing system, clock, allocator *)

\* the events the host delivers in the runs of the whole program
MainEvents ==
    {Quit, KeyDown("ESCAPE"), KeyDown("UP"), KeyDown("d"), KeyDown("RIGHT"),
     Resized(300, 200)}

\* the milliseconds between two readings of SDL_GetTicks in those runs
MainTickDeltas == {0, 500, 5000}

\* the events the host delivers in the runs of the session
SessionEvents ==
    {Quit, KeyDown("LEFT"), KeyDown("UP"), KeyUp("UP"), KeyDown("d"), KeyDown("u"),
     KeyDown("3"), Resized(300, 200), Resized(1024, 768)}

\* the milliseconds between two readings of SDL_GetTicks in those runs
SessionTickDeltas == {0, 1000}

\* what realloc may answer: it is called only when the buffer is full
ReallocOutcomes == IF lineCount >= lineCapacity THEN BOOLEAN ELSE {TRUE}

\* the host queues one more event; render_scene and SDL_GL_SwapWindow do not
\* read the queue, so every event is queued just before the poll that finds it
HostPost(evt) ==
    /\ pc = "handle_events"
    /\ frames < MaxFrames
    /\ Len(pending) < MaxQueue
    /\ pending' = Append(pending, evt)
    /\ UNCHANGED <<pc, exitCode, running, resourceVars, windowVars, sprite, keyVars,
                   trailVars, lastTime, frames, screen, call>>

-----------------------------------------------------------------------------
(* main.c: startup *)

\* no function has been run on its own
NoCall == <<>>

NoScreen ==
    [drawn |-> <<>>, calls |-> <<>>, proj |-> <<0, 0>>, at |-> <<0, 0>>, rotation |-> 0,
     status |-> <<>>, textProj |-> <<0, 0>>, rasterized |-> <<>>, text |-> <<>>]

Init ==
    /\ pc = "SDL_Init"
    /\ exitCode = -1
    /\ running = FALSE
    /\ acquired = <<>>
    /\ released = <<>>
    /\ failedStep = ""
    /\ stepsRun = <<>>
    /\ windowWidth = WINDOW_WIDTH
    /\ windowHeight = WINDOW_HEIGHT
    /\ projection = <<0, 0>>
    /\ sprite = SpriteZero
    /\ keyLeftPressed = FALSE
    /\ keyRightPressed = FALSE
    /\ keyUpPressed = FALSE
    /\ lines = <<>>
    /\ lineCount = 0
    /\ lineCapacity = INITIAL_LINE_CAPACITY
    /\ linesAlloc = FALSE
    /\ lastTime = 0
    /\ pending = <<>>
    /\ frames = 0
    /\ screen = NoScreen
    /\ call = NoCall

\* the first failure of a startup operation is remembered
NoteFailure(step, ok) == IF ok \/ failedStep # "" THEN failedStep ELSE step

\* return 1 after the release calls rel
Return1(rel) ==
    /\ released' = released \o rel
    /\ exitCode' = 1
    /\ pc' = "exited"

\* a startup step whose failure main detects: on failure it makes the release
\* calls rel and returns 1
CheckedStep(step, ok, resource, next, rel) ==
    /\ stepsRun' = Append(stepsRun, step)
    /\ failedStep' = NoteFailure(step, ok)
    /\ IF ok
       THEN /\ acquired' = Append(acquired, resource)
            /\ pc' = next
            /\ UNCHANGED <<released, exitCode, call>>
       ELSE /\ acquired' = acquired
            /\ Return1(rel)
    /\ UNCHANGED <<running, windowVars, sprite, keyVars, trailVars, lastTime,
                   pending, frames, screen, call>>

\* main.c 83-86: SDL_Init returns 0 on success and a negative error code on
\* failure; main takes only a return value > 0 for a failure
SDL_Init(ret) ==
    /\ pc = "SDL_Init"
    /\ stepsRun' = Append(stepsRun, "SDL_Init")
    /\ failedStep' = NoteFailure("SDL_Init", ret = 0)
    /\ acquired' = IF ret = 0 THEN Append(acquired, "SDL") ELSE acquired
    /\ IF ret > 0
       THEN Return1(<<>>)
       ELSE /\ pc' = "SDL_CreateWindow"
            /\ UNCHANGED <<released, exitCode, call>>
    /\ UNCHANGED <<running, windowVars, sprite, keyVars, trailVars, lastTime,
                   pending, frames, screen, call>>

\* main.c 96-109
SDL_CreateWindow(ok) ==
    /\ pc = "SDL_CreateWindow"
    /\ CheckedStep("SDL_CreateWindow", ok, "window", "SDL_GL_CreateContext", <<"SDL">>)

\* main.c 112-118
SDL_GL_CreateContext(ok) ==
    /\ pc = "SDL_GL_CreateContext"
    /\ CheckedStep("SDL_GL_CreateContext", ok, "glContext", "IMG_Init",
                   <<"window", "SDL">>)

\* main.c 121-128
IMG_Init(ok) ==
    /\ pc = "IMG_Init"
    /\ CheckedStep("IMG_Init", ok, "SDL_image", "TTF_Init",
                   <<"glContext", "window", "SDL">>)

\* main.c 131-138
TTF_Init(ok) ==
    /\ pc = "TTF_Init"
    /\ CheckedStep("TTF_Init", ok, "SDL_ttf", "init_font",
                   <<"SDL_image", "glContext", "window", "SDL">>)

\* main.c 141-148 with text.c init_font
init_font(ok) ==
    /\ pc = "init_font"
    /\ CheckedStep("init_font", ok, "font", "setup_opengl",
                   <<"SDL_ttf", "SDL_image", "glContext", "window", "SDL">>)

\* close_font(): releases the font if one is loaded
close_font == IF \E i \in 1..Len(acquired) : acquired[i] = "font" THEN <<"font">> ELSE <<>>

\* main.c 151 with graphics.c setup_opengl: sets viewport and projection and
\* allocates the lines buffer; a failed malloc calls exit(1)
setup_opengl(mallocOk) ==
    /\ pc = "setup_opengl"
    /\ stepsRun' = Append(stepsRun, "setup_opengl")
    /\ failedStep' = NoteFailure("setup_opengl", mallocOk)
    /\ projection' = <<windowWidth, windowHeight>>
    /\ linesAlloc' = mallocOk
    /\ IF mallocOk
       THEN /\ pc' = "load_sprite"
            /\ UNCHANGED exitCode
       ELSE /\ pc' = "exited"
            /\ exitCode' = 1
    /\ UNCHANGED <<running, acquired, released, windowWidth, windowHeight, sprite,
                   keyVars, lines, lineCount, lineCapacity, lastTime, pending,
                   frames, screen, call>>

\* main.c 154-162 with graphics.c load_sprite; the texture is never deleted,
\* so it is not among the resources main releases
load_sprite(ok) ==
    /\ pc = "load_sprite"
    /\ stepsRun' = Append(stepsRun, "load_sprite")
    /\ failedStep' = NoteFailure("load_sprite", ok)
    /\ IF ok
       THEN /\ pc' = "init_sprite"
            /\ UNCHANGED <<released, exitCode, call>>
       ELSE Return1(close_font \o <<"SDL_ttf", "SDL_image", "glContext", "window", "SDL">>)
    /\ UNCHANGED <<running, acquired, windowVars, sprite, keyVars, trailVars,
                   lastTime, pending, frames, screen, call>>

\* main.c 165-174: the sprite's first state, and running = true
InitSprite ==
    /\ pc = "init_sprite"
    /\ sprite' = [x |-> windowWidth \div 2, y |-> windowHeight \div 2, angle |-> 0,
                  pen |-> FALSE, r |-> 0, g |-> 0, b |-> 0]
    /\ running' = TRUE
    /\ pc' = "handle_events"
    /\ UNCHANGED <<exitCode, resourceVars, windowVars, keyVars, trailVars, lastTime,
                   pending, frames, screen, call>>

-----------------------------------------------------------------------------
(* main.c: the frame loop *)

\* the input state handle_events works on, and the trail
InputState ==
    [sprite |-> sprite, left |-> keyLeftPressed, right |-> keyRightPressed,
     up |-> keyUpPressed, w |-> windowWidth, h |-> windowHeight, proj |-> projection]
Trail ==
    [lines |-> lines, lineCount |-> lineCount, lineCapacity |-> lineCapacity,
     alive |-> linesAlloc]

\* the frame loop leaving at once when handle_events returns false, as with
\* a break: the last frame is neither rendered nor presented
HandleEvents_breaks_on_quit(elapsed, reallocOk) ==
    /\ pc = "handle_events"
    /\ frames < MaxFrames
    /\ \E currentTime \in {lastTime + elapsed} :
       \E res \in {handle_events(InputState, Trail, pending, currentTime - lastTime,
                                 reallocOk)} :
           /\ lastTime' = currentTime
           /\ frames' = frames + 1
           /\ pending' = res.rest
           /\ sprite' = res.c.sprite
           /\ keyLeftPressed' = res.c.left
           /\ keyRightPressed' = res.c.right
           /\ keyUpPressed' = res.c.up
           /\ windowWidth' = res.c.w
           /\ windowHeight' = res.c.h
           /\ projection' = res.c.proj
           /\ lines' = res.t.lines
           /\ lineCount' = res.t.lineCount
           /\ lineCapacity' = res.t.lineCapacity
           /\ linesAlloc' = res.t.alive
           /\ IF res.t.alive
              THEN /\ running' = res.ret
                   /\ pc' = IF res.ret THEN "render_scene" ELSE "cleanup"
                   /\ UNCHANGED exitCode
              ELSE /\ running' = running
                   /\ pc' = "exited"
                   /\ exitCode' = 1
    /\ UNCHANGED <<resourceVars, screen, call>>

\* main.c 176-183: the clock is read elapsed ms after lastTime, deltaTime is
\* computed and handle_events runs on the pending events
HandleEvents(elapsed, reallocOk) ==
    /\ pc = "handle_events"
    /\ frames < MaxFrames
    /\ \E currentTime \in {lastTime + elapsed} :
       \E res \in {handle_events(InputState, Trail, pending, currentTime - lastTime,
                                 reallocOk)} :
           /\ lastTime' = currentTime
           /\ frames' = frames + 1
           /\ pending' = res.rest
           /\ sprite' = res.c.sprite
           /\ keyLeftPressed' = res.c.left
           /\ keyRightPressed' = res.c.right
           /\ keyUpPressed' = res.c.up
           /\ windowWidth' = res.c.w
           /\ windowHeight' = res.c.h
           /\ projection' = res.c.proj
           /\ lines' = res.t.lines
           /\ lineCount' = res.t.lineCount
           /\ lineCapacity' = res.t.lineCapacity
           /\ linesAlloc' = res.t.alive
           /\ IF res.t.alive
              THEN /\ running' = res.ret
                   /\ pc' = "render_scene"
                   /\ UNCHANGED exitCode
              ELSE /\ running' = running
                   /\ pc' = "exited"
                   /\ exitCode' = 1
    /\ UNCHANGED <<resourceVars, screen, call>>

\* main.c 186: render_scene, with any of the given answers of render_text
\* for the four lines of the status text
RenderScene(outcomes) ==
    /\ pc = "render_scene"
    /\ \E rendered \in outcomes :
           screen' = render_scene(sprite, Trail, projection, windowWidth, windowHeight,
                                  rendered)
    /\ pc' = "SDL_GL_SwapWindow"
    /\ UNCHANGED <<exitCode, running, resourceVars, windowVars, sprite, keyVars,
                   trailVars, lastTime, pending, frames, call>>

\* main.c 189 and the loop test of line 175
SwapWindow ==
    /\ pc = "SDL_GL_SwapWindow"
    /\ pc' = IF running THEN "handle_events" ELSE "cleanup"
    /\ UNCHANGED <<exitCode, running, resourceVars, windowVars, sprite, keyVars,
                   trailVars, lastTime, pending, frames, screen, call>>

\* main.c 192-201
Cleanup ==
    /\ pc = "cleanup"
    /\ released' = released \o close_font \o
                   <<"SDL_ttf", "SDL_image", "glContext", "window", "SDL">>
    /\ exitCode' = 0
    /\ pc' = "exited"
    /\ UNCHANGED <<running, acquired, failedStep, stepsRun, windowVars, sprite,
                   keyVars, trailVars, lastTime, pending, frames, screen, call>>

-----------------------------------------------------------------------------------------------------------------------------------------------------
(* The program with its host *)

Startup ==
    \/ \E ret \in {0, -1} : SDL_Init(ret)
    \/ \E ok \in BOOLEAN : SDL_CreateWindow(ok)
    \/ \E ok \in BOOLEAN : SDL_GL_CreateContext(ok)
    \/ \E ok \in BOOLEAN : IMG_Init(ok)
    \/ \E ok \in BOOLEAN : TTF_Init(ok)
    \/ \E ok \in BOOLEAN : init_font(ok)
    \/ \E ok \in BOOLEAN : setup_opengl(ok)
    \/ \E ok \in BOOLEAN : load_sprite(ok)
    \/ InitSprite

\* one call of handle_events, after any of the given times and with any
\* answer of the allocator
Frame(deltas) == \E elapsed \in deltas, ok \in ReallocOutcomes : HandleEvents(elapsed, ok)

\* every line of the status text rasterized, 14 units high
AllRendered ==
    {<<TextSurface(150, 14), TextSurface(120, 14), TextSurface(60, 14),
       TextSurface(110, 14)>>}

\* the frame loop and the exit that follows it
Loop(deltas) ==
    \/ Frame(deltas)
    \/ RenderScene(AllRendered)
    \/ SwapWindow
    \/ Cleanup

\* The whole program, from the first statement of main
Next ==
    \/ Startup
    \/ \E evt \in MainEvents : HostPost(evt)
    \/ Loop(MainTickDeltas)

Spec == Init /\ [][Next]_vars

\* The session: the program from the first pass of the frame loop, every
\* startup step having succeeded
SessionInit ==
    /\ pc = "handle_events"
    /\ exitCode = -1
    /\ running = TRUE
    /\ acquired = <<"SDL", "window", "glContext", "SDL_image", "SDL_ttf", "font">>
    /\ released = <<>>
    /\ failedStep = ""
    /\ stepsRun = <<"SDL_Init", "SDL_CreateWindow", "SDL_GL_CreateContext", "IMG_Init",
                    "TTF_Init", "init_font", "setup_opengl", "load_sprite">>
    /\ windowWidth = WINDOW_WIDTH
    /\ windowHeight = WINDOW_HEIGHT
    /\ projection = <<WINDOW_WIDTH, WINDOW_HEIGHT>>
    /\ sprite = [x |-> WINDOW_WIDTH \div 2, y |-> WINDOW_HEIGHT \div 2, angle |-> 0,
                 pen |-> FALSE, r |-> 0, g |-> 0, b |-> 0]
    /\ keyLeftPressed = FALSE
    /\ keyRightPressed = FALSE
    /\ keyUpPressed = FALSE
    /\ lines = <<>>
    /\ lineCount = 0
    /\ lineCapacity = INITIAL_LINE_CAPACITY
    /\ linesAlloc = TRUE
    /\ lastTime = 0
    /\ pending = <<>>
    /\ frames = 0
    /\ screen = NoScreen
    /\ call = NoCall

SessionNext ==
    \/ \E evt \in SessionEvents : HostPost(evt)
    \/ Loop(SessionTickDeltas)

SpecSession == SessionInit /\ [][SessionNext]_vars

-----------------------------------------------------------------------------
(* A stroke in progress: the session after the pen was put down, the Up    *)
(* key was pressed and passes of one second each were run, until the lines *)
(* buffer is one append short of full                                      *)

\* the session as main leaves it before the first frame, with the key-down
\* events of D and Up applied by a first pass of handle_events
StrokeStart ==
    handle_events([sprite |-> [x |-> WINDOW_WIDTH \div 2, y |-> WINDOW_HEIGHT \div 2,
                               angle |-> 0, pen |-> FALSE, r |-> 0, g |-> 0, b |-> 0],
                   left |-> FALSE, right |-> FALSE, up |-> FALSE,
                   w |-> WINDOW_WIDTH, h |-> WINDOW_HEIGHT,
                   proj |-> <<WINDOW_WIDTH, WINDOW_HEIGHT>>],
                  [lines |-> <<>>, lineCount |-> 0,
                   lineCapacity |-> INITIAL_LINE_CAPACITY, alive |-> TRUE],
                  <<KeyDown("d"), KeyDown("UP")>>, 1000, TRUE)

\* the input state and the trail n passes of handle_events after st, each on
\* an empty queue; no pass is run once the process has exited
RECURSIVE AfterPasses(_, _)
AfterPasses(st, n) ==
    IF ~st.t.alive \/ n = 0 THEN st
    ELSE IF n = 1 THEN handle_events(st.c, st.t, <<>>, 1000, TRUE)
    ELSE AfterPasses(AfterPasses(st, n \div 2), n - (n \div 2))

StrokePasses == INITIAL_LINE_CAPACITY - 2

StrokeInit ==
    /\ pc = "handle_events"
    /\ exitCode = -1
    /\ running = TRUE
    /\ acquired = <<"SDL", "window", "glContext", "SDL_image", "SDL_ttf", "font">>
    /\ released = <<>>
    /\ failedStep = ""
    /\ stepsRun = <<"SDL_Init", "SDL_CreateWindow", "SDL_GL_CreateContext", "IMG_Init",
                    "TTF_Init", "init_font", "setup_opengl", "load_sprite">>
    /\ \E st \in {AfterPasses(StrokeStart, StrokePasses)} :
           /\ windowWidth = st.c.w
           /\ windowHeight = st.c.h
           /\ projection = st.c.proj
           /\ sprite = st.c.sprite
           /\ keyLeftPressed = st.c.left
           /\ keyRightPressed = st.c.right
           /\ keyUpPressed = st.c.up
           /\ lines = st.t.lines
           /\ lineCount = st.t.lineCount
           /\ lineCapacity = st.t.lineCapacity
           /\ linesAlloc = st.t.alive
           /\ \E rendered \in AllRendered :
                  screen = render_scene(st.c.sprite, st.t, st.c.proj, st.c.w, st.c.h,
                                        rendered)
    /\ lastTime = 1000 * (StrokePasses + 1)
    /\ pending = <<>>
    /\ frames = 0
    /\ call = NoCall

\* the events the host delivers during the stroke
StrokeEvents ==
    {Quit, KeyDown("LEFT"), KeyUp("UP"), KeyDown("u"), KeyDown("3"), Resized(300, 200)}

StrokeNext ==
    \/ \E evt \in StrokeEvents : HostPost(evt)
    \/ Loop(SessionTickDeltas)

SpecStroke == StrokeInit /\ [][StrokeNext]_vars

-----------------------------------------------------------------------------
(* update_location on its own: one call from each of a set of sprite     *)
(* states and window sizes, among them positions outside the window (as  *)
(* a resize leaves them) and windows smaller than the sprite             *)

LocationXs == {-30, 0, 10, 25, 150, 400, 775, 790, 1000}
LocationYs == {0, 25, 100, 400, 775, 1000}
LocationAngles == {Deg(d) : d \in {-45, 0, 45, 90, 180, 270}}
LocationWidths == {40, 50, 300, 800}
LocationHeights == {30, 50, 800}
LocationTickDeltas == {0, 500, 1000, 5000}

LocationInit ==
    /\ pc = "update_location"
    /\ exitCode = -1
    /\ running = TRUE
    /\ acquired = <<"SDL", "window", "glContext", "SDL_image", "SDL_ttf", "font">>
    /\ released = <<>>
    /\ failedStep = ""
    /\ stepsRun = <<"SDL_Init", "SDL_CreateWindow", "SDL_GL_CreateContext", "IMG_Init",
                    "TTF_Init", "init_font", "setup_opengl", "load_sprite">>
    /\ windowWidth \in LocationWidths
    /\ windowHeight \in LocationHeights
    /\ projection = <<windowWidth, windowHeight>>
    /\ \E x \in LocationXs, y \in LocationYs, a \in LocationAngles :
           sprite = [x |-> x, y |-> y, angle |-> a, pen |-> FALSE,
                     r |-> 0, g |-> 0, b |-> 0]
    /\ keyLeftPressed = FALSE
    /\ keyRightPressed = FALSE
    /\ keyUpPressed = TRUE
    /\ lines = <<>>
    /\ lineCount = 0
    /\ lineCapacity = INITIAL_LINE_CAPACITY
    /\ linesAlloc = TRUE
    /\ lastTime = 0
    /\ pending = <<>>
    /\ frames = 0
    /\ screen = NoScreen
    /\ call = NoCall

\* update_location(deltaTime, windowWidth, windowHeight)
UpdateLocationCall(dt) ==
    /\ pc = "update_location"
    /\ call' = [sprite |-> sprite, deltaTime |-> dt]
    /\ sprite' = update_location(sprite, dt, windowWidth, windowHeight)
    /\ pc' = "updated"
    /\ UNCHANGED <<exitCode, running, resourceVars, windowVars, keyVars, trailVars,
                   lastTime, pending, frames, screen>>

LocationNext == \E dt \in LocationTickDeltas : UpdateLocationCall(dt)

SpecLocation == LocationInit /\ [][LocationNext]_vars

-----------------------------------------------------------------------------
(* Frames with keys held: the session from any heading and any set of     *)
(* held arrow keys, with the pen up or down, at the window's centre or    *)
(* 10 units from its left edge                                            *)

HeldHeadings == {Deg(d) : d \in {0, 90, 180, 270, 315}}
HeldPositions == {<<400, 400>>, <<10, 400>>}
HeldEvents == {Quit, KeyDown("u"), KeyDown("d")}
HeldTickDeltas == {0, 1000, 4500}

HeldInit ==
    /\ pc = "handle_events"
    /\ exitCode = -1
    /\ running = TRUE
    /\ acquired = <<"SDL", "window", "glContext", "SDL_image", "SDL_ttf", "font">>
    /\ released = <<>>
    /\ failedStep = ""
    /\ stepsRun = <<"SDL_Init", "SDL_CreateWindow", "SDL_GL_CreateContext", "IMG_Init",
                    "TTF_Init", "init_font", "setup_opengl", "load_sprite">>
    /\ windowWidth = WINDOW_WIDTH
    /\ windowHeight = WINDOW_HEIGHT
    /\ projection = <<WINDOW_WIDTH, WINDOW_HEIGHT>>
    /\ \E at \in HeldPositions, a \in HeldHeadings, pen \in BOOLEAN :
           sprite = [x |-> at[1], y |-> at[2], angle |-> a, pen |-> pen,
                     r |-> 0, g |-> 0, b |-> 0]
    /\ keyLeftPressed \in BOOLEAN
    /\ keyRightPressed \in BOOLEAN
    /\ keyUpPressed \in BOOLEAN
    /\ lines = <<>>
    /\ lineCount = 0
    /\ lineCapacity = INITIAL_LINE_CAPACITY
    /\ linesAlloc = TRUE
    /\ lastTime = 0
    /\ pending = <<>>
    /\ frames = 0
    /\ screen = NoScreen
    /\ call = NoCall

HeldNext ==
    \/ \E evt \in HeldEvents : HostPost(evt)
    \/ Loop(HeldTickDeltas)

SpecHeld == HeldInit /\ [][HeldNext]_vars

-----------------------------------------------------------------------------
(* Order inside a frame: the session with arrow keys held, from any of    *)
(* the headings and positions above, the host queueing pen keys and the   *)
(* key 3, and frames of 1 s and of 4.5 s                                  *)

OrderEvents == {Quit, KeyDown("d"), KeyDown("u"), KeyDown("3")}
OrderTickDeltas == {1000, 4500}

OrderNext ==
    \/ \E evt \in OrderEvents : HostPost(evt)
    \/ Loop(OrderTickDeltas)

SpecOrder == HeldInit /\ [][OrderNext]_vars

-----------------------------------------------------------------------------
(* Drains: the session with no key held, the host queueing pen keys,      *)
(* colour keys and resizes, several to a frame                            *)

DrainEvents ==
    {Quit, KeyDown("d"), KeyDown("u"), KeyDown("2"), KeyDown("3"),
     Resized(1024, 768), Resized(300, 200)}
DrainTickDeltas == {1000}

DrainNext ==
    \/ \E evt \in DrainEvents : HostPost(evt)
    \/ Loop(DrainTickDeltas)

SpecDrain == SessionInit /\ [][DrainNext]_vars

-----------------------------------------------------------------------------
(* Arrow keys: the session with the host pressing and releasing the arrow *)
(* keys, several events to a frame, and frames of no time or one second   *)

ArrowEvents ==
    {Quit, KeyDown("LEFT"), KeyUp("LEFT"), KeyDown("RIGHT"), KeyDown("UP"), KeyUp("UP")}
ArrowTickDeltas == {0, 1000}

ArrowNext ==
    \/ \E evt \in ArrowEvents : HostPost(evt)
    \/ Loop(ArrowTickDeltas)

SpecArrows == SessionInit /\ [][ArrowNext]_vars

-----------------------------------------------------------------------------
(* Pen and colour keys: the session with the host pressing and releasing  *)
(* D and 3, pressing U, Up and a key the program has no case for, and     *)
(* resizing the window                                                    *)

PenKeyEvents ==
    {Quit, KeyDown("d"), KeyUp("d"), KeyDown("u"), KeyDown("3"), KeyUp("3"),
     KeyDown("x"), KeyDown("UP"), Resized(300, 200)}
PenKeyTickDeltas == {1000}

PenKeyNext ==
    \/ \E evt \in PenKeyEvents : HostPost(evt)
    \/ Loop(PenKeyTickDeltas)

SpecPenKeys == SessionInit /\ [][PenKeyNext]_vars

-----------------------------------------------------------------------------
(* Window events: the session with the host resizing the window to two    *)
(* sizes, exposing it and moving the mouse, beside the keys that turn,    *)
(* move and draw                                                          *)

WindowEvents ==
    {Quit, KeyDown("UP"), KeyDown("d"), KeyDown("LEFT"), Exposed, MouseMotion,
     Resized(300, 200), Resized(1024, 768)}
WindowTickDeltas == {1000}

WindowNext ==
    \/ \E evt \in WindowEvents : HostPost(evt)
    \/ Loop(WindowTickDeltas)

SpecWindow == SessionInit /\ [][WindowNext]_vars

-----------------------------------------------------------------------------
(* The clock of the frame loop: main.c 177-180 with SDL_GetTicks as the   *)
(* 32-bit millisecond counter it is. A Uint32 is kept as its two 16-bit   *)
(* halves, [hi, lo], so that values up to 2^32 - 1 and the wrap to 0 are  *)
(* exact.                                                                 *)

Half == 65536
U32(hi, lo) == [hi |-> hi, lo |-> lo]

\* the Uint32 of a small number of milliseconds
FromMs(n) == U32((n \div Half) % Half, n % Half)

\* SDL_GetTicks n milliseconds after it returned a: the counter wraps to 0
\* after 2^32 - 1
Add32(a, n) ==
    U32((a.hi + (a.lo + n) \div Half) % Half, (a.lo + n) % Half)

\* currentTime - lastTime on Uint32: the difference modulo 2^32
Sub32(a, b) ==
    LET borrow == IF a.lo < b.lo THEN 1 ELSE 0
    IN  U32((a.hi - b.hi - borrow) % Half, (a.lo - b.lo) % Half)

\* (float)(ticks) / 1000.0f, in milliseconds; the differences the loop meets
\* here lie far below 2^31
ToMs(a) == a.hi * Half + a.lo

\* the time from SDL_Init to the first pass of the loop: the window, the GL
\* context, the font and the sprite's image are made in between
ClockBoots == {0, 350}

\* readings of the counter in the middle of a session: 5 s after SDL_Init,
\* just below a carry into the upper half, and just below the wrap
ClockReadings == {U32(0, 5000), U32(0, Half - 100), U32(Half - 1, Half - 100)}

\* where the loop stands: before its first pass, lastTime still 0 from its
\* initialiser and the counter at the time the start took; or between two
\* passes, lastTime being the reading of the pass before
ClockStarts ==
    {[frames |-> 0, lastTime |-> U32(0, 0), ticks |-> FromMs(boot)] : boot \in ClockBoots}
        \cup {[frames |-> 1, lastTime |-> t, ticks |-> t] : t \in ClockReadings}

ClockEvents == {Quit, KeyDown("UP"), KeyDown("d")}
ClockTickDeltas == {0, 16, 250}

\* call holds what the pass read and computed: the counter (ticks), the time
\* since the pass before or, in the first pass, since the loop was entered
\* (elapsed), and the difference handed on as deltaTime
ClockInit ==
    /\ pc = "handle_events"
    /\ exitCode = -1
    /\ running = TRUE
    /\ acquired = <<"SDL", "window", "glContext", "SDL_image", "SDL_ttf", "font">>
    /\ released = <<>>
    /\ failedStep = ""
    /\ stepsRun = <<"SDL_Init", "SDL_CreateWindow", "SDL_GL_CreateContext", "IMG_Init",
                    "TTF_Init", "init_font", "setup_opengl", "load_sprite">>
    /\ windowWidth = WINDOW_WIDTH
    /\ windowHeight = WINDOW_HEIGHT
    /\ projection = <<WINDOW_WIDTH, WINDOW_HEIGHT>>
    /\ sprite = [x |-> WINDOW_WIDTH \div 2, y |-> WINDOW_HEIGHT \div 2, angle |-> 0,
                 pen |-> FALSE, r |-> 0, g |-> 0, b |-> 0]
    /\ keyLeftPressed = FALSE
    /\ keyRightPressed = FALSE
    /\ keyUpPressed = FALSE
    /\ lines = <<>>
    /\ lineCount = 0
    /\ lineCapacity = INITIAL_LINE_CAPACITY
    /\ linesAlloc = TRUE
    /\ pending = <<>>
    /\ screen = NoScreen
    /\ \E start \in ClockStarts :
           /\ frames = start.frames
           /\ lastTime = start.lastTime
           /\ call = [ticks |-> start.ticks, elapsed |-> 0, deltaTime |-> U32(0, 0)]

\* main.c 177-183: one pass reads the counter elapsed ms after the reading
\* before, takes the difference to lastTime, stores the reading in lastTime
\* and calls handle_events with the difference
TimedPass(elapsed, reallocOk) ==
    /\ pc = "handle_events"
    /\ frames < MaxFrames
    /\ \E currentTime \in {Add32(call.ticks, elapsed)} :
       \E res \in {handle_events(InputState, Trail, pending,
                                 ToMs(Sub32(currentTime, lastTime)), reallocOk)} :
           /\ lastTime' = currentTime
           /\ call' = [ticks |-> currentTime, elapsed |-> elapsed,
                       deltaTime |-> Sub32(currentTime, lastTime)]
           /\ frames' = frames + 1
           /\ pending' = res.rest
           /\ sprite' = res.c.sprite
           /\ keyLeftPressed' = res.c.left
           /\ keyRightPressed' = res.c.right
           /\ keyUpPressed' = res.c.up
           /\ windowWidth' = res.c.w
           /\ windowHeight' = res.c.h
           /\ projection' = res.c.proj
           /\ lines' = res.t.lines
           /\ lineCount' = res.t.lineCount
           /\ lineCapacity' = res.t.lineCapacity
           /\ linesAlloc' = res.t.alive
           /\ IF res.t.alive
              THEN /\ running' = res.ret
                   /\ pc' = "render_scene"
                   /\ UNCHANGED exitCode
              ELSE /\ running' = running
                   /\ pc' = "exited"
                   /\ exitCode' = 1
    /\ UNCHANGED <<resourceVars, screen>>

\* one pass, after any of the given times
ClockFrame(deltas) ==
    \E elapsed \in deltas, ok \in ReallocOutcomes : TimedPass(elapsed, ok)

ClockNext ==
    \/ \E evt \in ClockEvents : HostPost(evt)
    \/ ClockFrame(ClockTickDeltas)
    \/ RenderScene(AllRendered)
    \/ SwapWindow
    \/ Cleanup

SpecClock == ClockInit /\ [][ClockNext]_vars

-----------------------------------------------------------------------------
(* Colours: the program from its start, with the host pressing the five   *)
(* colour keys, the 6, D and Up                                           *)

ColorEvents ==
    {Quit, KeyDown("1"), KeyDown("2"), KeyDown("3"), KeyDown("4"), KeyDown("5"),
     KeyDown("6"), KeyDown("d"), KeyDown("UP")}
ColorTickDeltas == {1000}

ColorNext ==
    \/ Startup
    \/ \E evt \in ColorEvents : HostPost(evt)
    \/ Loop(ColorTickDeltas)

SpecColors == Init /\ [][ColorNext]_vars

-----------------------------------------------------------------------------
(* The rotation block in float arithmetic: events.c 151-157 with the       *)
(* rounding of binary32. Angles are counted in units of 2^-20 degree. A    *)
(* float below 16 that lies on this grid is exact; from 16 on, the floats  *)
(* are the multiples of 2, 4, 8, 16, 32, 64 units in [16,32), [32,64),     *)
(* [64,128), [128,256), [256,512), [512,1024). Sums and differences of     *)
(* grid values are grid values, so rounding them to the nearest float,     *)
(* ties to even, is exact on this grid, and fmodf is exact in any case.    *)

Fine == 1048576
F32(d) == d * Fine

\* the distance between neighbouring floats at the magnitude m >= 0
Ulp(m) ==
    IF m < F32(16) THEN 1
    ELSE IF m < F32(32) THEN 2
    ELSE IF m < F32(64) THEN 4
    ELSE IF m < F32(128) THEN 8
    ELSE IF m < F32(256) THEN 16
    ELSE IF m < F32(512) THEN 32
    ELSE 64

\* v rounded to the nearest float, ties to the even one
RoundF(v) ==
    LET m == IF v >= 0 THEN v ELSE -v
        u == Ulp(m)
        q == m \div u
        rest == m % u
        up == 2 * rest > u \/ (2 * rest = u /\ q % 2 = 1)
        n == (IF up THEN q + 1 ELSE q) * u
    IN  IF v >= 0 THEN n ELSE -n

\* ROTATION_INCREMENT * deltaTime for a deltaTime of k eighths of a second
\* (k * 125 ms): 11.25 k degrees, exact
Turn(k) == ROTATION_INCREMENT * k * (Fine \div 8)

\* the right rotation without the + 360.0f
UpdateRotation32_right_without_360(h, r, left, right, wide) ==
    LET a1 == IF left THEN fmodf(RoundF(h + r), F32(360)) ELSE h
    IN  IF right THEN fmodf(RoundF(a1 - r), F32(360)) ELSE a1

\* "Update rotation" on the float heading h with the turn r of the frame.
\* wide tells how the build evaluates float expressions: each operation
\* rounded to float (FLT_EVAL_METHOD 0), or the expression in a wider format
\* and rounded once, when it is handed to fmodf
UpdateRotation32(h, r, left, right, wide) ==
    LET a1 == IF left THEN fmodf(RoundF(h + r), F32(360)) ELSE h
        arg == IF wide THEN RoundF(a1 - r + F32(360))
               ELSE RoundF(RoundF(a1 - r) + F32(360))
    IN  IF right THEN fmodf(arg, F32(360)) ELSE a1

\* headings in [0, 360): whole and quarter degrees, values with low bits set
\* near 0, 5, 90 and 230 degrees, and the last floats below 16 and below 360
RotationHeadings ==
    {RoundF(h) : h \in {0, 94372, F32(5) + 1, F32(16) - 1, F32(45), F32(90) + 12,
                        F32(230) - 74500, F32(270) + Fine \div 4, F32(350),
                        F32(360) - 32}}

\* frame times of 0 to 31 eighths of a second: 90 * deltaTime < 360
RotationEighths == 0..31

RotationInit ==
    /\ pc = "update_rotation"
    /\ exitCode = -1
    /\ running = TRUE
    /\ acquired = <<"SDL", "window", "glContext", "SDL_image", "SDL_ttf", "font">>
    /\ released = <<>>
    /\ failedStep = ""
    /\ stepsRun = <<"SDL_Init", "SDL_CreateWindow", "SDL_GL_CreateContext", "IMG_Init",
                    "TTF_Init", "init_font", "setup_opengl", "load_sprite">>
    /\ windowWidth = WINDOW_WIDTH
    /\ windowHeight = WINDOW_HEIGHT
    /\ projection = <<WINDOW_WIDTH, WINDOW_HEIGHT>>
    /\ \E h \in RotationHeadings :
           sprite = [x |-> WINDOW_WIDTH \div 2, y |-> WINDOW_HEIGHT \div 2, angle |-> h,
                     pen |-> FALSE, r |-> 0, g |-> 0, b |-> 0]
    /\ keyLeftPressed \in BOOLEAN
    /\ keyRightPressed \in BOOLEAN
    /\ keyUpPressed = FALSE
    /\ lines = <<>>
    /\ lineCount = 0
    /\ lineCapacity = INITIAL_LINE_CAPACITY
    /\ linesAlloc = TRUE
    /\ lastTime = 0
    /\ pending = <<>>
    /\ frames = 0
    /\ screen = NoScreen
    /\ call = NoCall

\* events.c 151-157 in a frame of k eighths of a second
UpdateRotationCall(k, wide) ==
    /\ pc = "update_rotation"
    /\ call' = [sprite |-> sprite, eighths |-> k, wide |-> wide]
    /\ sprite' = [sprite EXCEPT !.angle = UpdateRotation32(sprite.angle, Turn(k),
                                                           keyLeftPressed,
                                                           keyRightPressed, wide)]
    /\ pc' = "rotated"
    /\ UNCHANGED <<exitCode, running, resourceVars, windowVars, keyVars, trailVars,
                   lastTime, pending, frames, screen>>

RotationNext == \E k \in RotationEighths, wide \in BOOLEAN : UpdateRotationCall(k, wide)

SpecRotation == RotationInit /\ [][RotationNext]_vars

-----------------------------------------------------------------------------
(* change_color and render_scene on their own: one call of change_color   *)
(* with any option, from any colour, then one call of render_scene with   *)
(* any answers of render_text                                             *)

ColorOptions == 0..7
PaletteLevels == {0, 1}
TextAnswers == {TextFailed, TextSurface(100, 14), TextSurface(130, 20)}
TextOutcomes == [1..4 -> TextAnswers]

\* a trail of one blue segment, stored before the calls
OneSegment ==
    <<[x1 |-> 400, y1 |-> 400, x2 |-> 600, y2 |-> 400, r |-> 0, g |-> 0, b |-> 1]>>

OverlayInit ==
    /\ pc = "change_color"
    /\ exitCode = -1
    /\ running = TRUE
    /\ acquired = <<"SDL", "window", "glContext", "SDL_image", "SDL_ttf", "font">>
    /\ released = <<>>
    /\ failedStep = ""
    /\ stepsRun = <<"SDL_Init", "SDL_CreateWindow", "SDL_GL_CreateContext", "IMG_Init",
                    "TTF_Init", "init_font", "setup_opengl", "load_sprite">>
    /\ windowWidth = WINDOW_WIDTH
    /\ windowHeight = WINDOW_HEIGHT
    /\ projection = <<WINDOW_WIDTH, WINDOW_HEIGHT>>
    /\ \E r \in PaletteLevels, g \in PaletteLevels, b \in PaletteLevels, pen \in BOOLEAN :
           sprite = [x |-> 600, y |-> 400, angle |-> Deg(90), pen |-> pen,
                     r |-> r, g |-> g, b |-> b]
    /\ keyLeftPressed = FALSE
    /\ keyRightPressed = FALSE
    /\ keyUpPressed = FALSE
    /\ lines = OneSegment
    /\ lineCount = 1
    /\ lineCapacity = INITIAL_LINE_CAPACITY
    /\ linesAlloc = TRUE
    /\ lastTime = 0
    /\ pending = <<>>
    /\ frames = 0
    /\ screen = NoScreen
    /\ call = NoCall

\* change_color(color_option)
ChangeColorCall(color_option) ==
    /\ pc = "change_color"
    /\ call' = [sprite |-> sprite, color_option |-> color_option]
    /\ sprite' = change_color(sprite, color_option)
    /\ pc' = "render_scene"
    /\ UNCHANGED <<exitCode, running, resourceVars, windowVars, keyVars, trailVars,
                   lastTime, pending, frames, screen>>

OverlayNext ==
    \/ \E color_option \in ColorOptions : ChangeColorCall(color_option)
    \/ RenderScene(TextOutcomes)

SpecOverlay == OverlayInit /\ [][OverlayNext]_vars

-----------------------------------------------------------------------------
(* Claims *)

\* the frame loop has been entered (the sprite has its first state)
InSession == pc \in {"handle_events", "render_scene", "SDL_GL_SwapWindow", "cleanup"}

\* the sprite's bounding box lies inside the w x h window
BoxInside(s, w, h) ==
    /\ s.x - halfWidth >= 0
    /\ s.x + halfWidth <= w
    /\ s.y - halfHeight >= 0
    /\ s.y + halfHeight <= h

\* C1: after any sequence of frames, with any keys held and any frame time,
\* the heading is in [0, 360)
C1_HeadingInRange == 0 <= sprite.angle /\ sprite.angle < Deg(360)

\* C2: in every state of the session, after every event and every frame, the
\* marker's bounding box lies inside the current window
C2_MarkerInsideWindow == InSession => BoxInside(sprite, windowWidth, windowHeight)

\* C3: for every window size, also one smaller than the sprite, the position
\* update_location leaves has its bounding box inside the window
C3_BoxInsideAnyWindow ==
    pc = "updated" => BoxInside(sprite, windowWidth, windowHeight)

\* C3 as amended: for every window at least as wide and as high as the sprite
\* (50 x 50), every starting position, heading and frame time, the position
\* update_location leaves has its bounding box inside the window
C3_BoxInsideWindow ==
    (pc = "updated" /\ windowWidth >= 2 * halfWidth /\ windowHeight >= 2 * halfHeight)
        => BoxInside(sprite, windowWidth, windowHeight)

\* C3's case: a move that started outside a 300-wide window and was clamped
\* to its right and bottom edges
C3_Witness ==
    /\ pc = "updated"
    /\ windowWidth = 300
    /\ call.sprite.x = 1000
    /\ windowHeight = 800
    /\ call.sprite.y = 1000
    /\ sprite.x = 300 - halfWidth
    /\ sprite.y = 800 - halfHeight

\* a step is a call of handle_events
FrameStep == frames' = frames + 1

\* a step is a call of handle_events that returned (it did not end the
\* process inside add_line)
FrameReturned == FrameStep /\ pc' = "render_scene"

\* a step is a call of handle_events that returned true with the Up key held:
\* update_location was called
Advanced == FrameReturned /\ running' /\ keyUpPressed'

\* C4: a stored segment never changes: whatever happens later (colour and pen
\* changes, rotation, movement, resizes, further appends, a growth of the
\* buffer, rendering), as long as the buffer exists segment i keeps its
\* endpoints and its colour
C4_SegmentsImmutable ==
    [][linesAlloc' => \A i \in 1..lineCount : lineCount' >= i /\ lines'[i] = lines[i]]_vars

\* C4's case: the buffer has grown, the colour was changed to red after the
\* first segments were stored, and the trail has been rendered since
C4_Witness ==
    /\ pc = "SDL_GL_SwapWindow"
    /\ lineCapacity = 2 * INITIAL_LINE_CAPACITY
    /\ lineCount = INITIAL_LINE_CAPACITY + 1
    /\ lines[INITIAL_LINE_CAPACITY].r = 1
    /\ lines[1].r = 0
    /\ screen.drawn = lines

\* C5: the trail length never decreases; a frame that moves forward with the
\* pen down (handle_events returns true, Up held and pen down after its
\* drain) appends exactly one segment, every other step appends none
C5_TrailGrowsByOnePerDraw ==
    [][/\ lineCount' = Len(lines')
       /\ IF Advanced /\ sprite'.pen
          THEN lineCount' = lineCount + 1
          ELSE lineCount' = lineCount]_vars

\* C5's case: of two frames, one drew and one did not
C5_Witness == frames = 2 /\ lineCount = 1 /\ pc = "render_scene"

\* C6: the segment a frame appends runs from the marker's position before
\* the frame to its position after the advance, in the colour the marker has
\* after the frame's events
C6_SegmentRecordsTheMove ==
    [][lineCount' = lineCount + 1 =>
         lines'[lineCount'] = [x1 |-> sprite.x, y1 |-> sprite.y,
                               x2 |-> sprite'.x, y2 |-> sprite'.y,
                               r |-> sprite'.r, g |-> sprite'.g, b |-> sprite'.b]]_vars

\* C6's case: a black segment, then in the second frame the key 3 and a red
\* segment that ends where the window's edge stopped the marker
C6_Witness ==
    /\ frames = 2
    /\ lineCount = 2
    /\ lines[1].r = 0
    /\ lines[2].r = 1
    /\ lines[2].x1 = 600
    /\ lines[2].x2 = WINDOW_WIDTH - halfWidth

\* the events a call of handle_events took from the queue
Consumed == SubSeq(pending, 1, Len(pending) - Len(pending'))

\* the places of the resize events in the queue q
ResizesIn(q) ==
    {i \in 1..Len(q) : q[i].type = "SDL_WINDOWEVENT" /\ q[i].event = "RESIZED"}

\* the largest element of a non-empty set of integers
Max(S) == CHOOSE m \in S : \A n \in S : n <= m

\* C7: once a frame has processed a resize event, the stored size is that
\* event's payload (the last one's, when there are several), and the advance
\* of that same frame, like every later one, keeps the marker inside the
\* size stored at that time
C7_ResizeTakesEffectAtOnce ==
    [][FrameStep =>
         /\ ResizesIn(Consumed) # {} =>
              LET last == Consumed[Max(ResizesIn(Consumed))]
              IN  /\ windowWidth' = last.data1
                  /\ windowHeight' = last.data2
                  /\ Advanced => BoxInside(sprite', last.data1, last.data2)
         /\ Advanced => BoxInside(sprite', windowWidth', windowHeight')]_vars

\* C7's case: the first frame finds a resize to 300 x 200 and the Up key, and
\* its advance is stopped at the new right edge
C7_Witness ==
    /\ frames = 1
    /\ pc = "render_scene"
    /\ windowWidth = 300
    /\ keyUpPressed
    /\ sprite.x = 300 - halfWidth

\* evt asks to quit: SDL_QUIT or the key-down of Escape
IsQuitRequest(evt) ==
    evt.type = "SDL_QUIT" \/ (evt.type = "SDL_KEYDOWN" /\ evt.sym = "ESCAPE")

\* the release calls of main's normal end, in order
NormalCleanup == <<"font", "SDL_ttf", "SDL_image", "glContext", "window", "SDL">>

\* handle_events has returned false
ReturnedFalse == frames > 0 /\ ~running /\ pc # "handle_events"

\* C8: handle_events returns false exactly when a quit request is among the
\* pending events; after that main polls no more events: it renders, swaps,
\* makes the release calls of the normal end and exits with code 0
C8_QuitEndsCleanly ==
    [][/\ FrameReturned =>
            (running' <=> ~\E i \in 1..Len(pending) : IsQuitRequest(pending[i]))
       /\ ReturnedFalse =>
            /\ frames' = frames
            /\ pending' = pending
            /\ pc = "render_scene" => pc' = "SDL_GL_SwapWindow"
            /\ pc = "SDL_GL_SwapWindow" => pc' = "cleanup"
            /\ pc = "cleanup" =>
                 pc' = "exited" /\ exitCode' = 0 /\ released' = NormalCleanup]_vars

\* C8's case: the second frame found a quit request behind another event,
\* and the process has exited with code 0
C8_Witness ==
    /\ pc = "exited"
    /\ exitCode = 0
    /\ frames = 2
    /\ ~running
    /\ keyUpPressed

\* C9: when a startup step fails, the process exits with code 1 at that
\* step: no later startup step runs and the frame loop is never entered
C9_FailedStepExits ==
    failedStep # "" =>
        /\ pc = "exited"
        /\ exitCode = 1
        /\ stepsRun[Len(stepsRun)] = failedStep
        /\ frames = 0

\* the sequence s in reverse order
Reverse(s) == [i \in 1..Len(s) |-> s[Len(s) + 1 - i]]

\* C10: when the process has exited, every resource acquired has been
\* released exactly once, in reverse order of acquisition, and nothing else
\* has been released
C10_ReleasedInReverse == pc = "exited" => released = Reverse(acquired)

\* the five options of the palette
Palette == 1..5

\* a step is a call of change_color with an option outside the palette
InvalidColorCall == pc = "change_color" /\ call'.color_option \notin Palette

\* C11: a call of change_color with an option outside 1..5 changes neither
\* the colour, the position, the heading or the pen of the marker nor the
\* trail, and the program goes on
C11_InvalidOptionIsNoOp ==
    [][InvalidColorCall =>
         /\ sprite' = sprite
         /\ UNCHANGED trailVars
         /\ running'
         /\ pc' = "render_scene"
         /\ exitCode' = exitCode]_vars

\* C11's case: option 6 was given while the colour was yellow and the pen
\* down, and the scene has been rendered after it
C11_Witness ==
    /\ pc = "SDL_GL_SwapWindow"
    /\ call.color_option = 6
    /\ call.sprite.r = 1 /\ call.sprite.g = 1 /\ call.sprite.b = 0
    /\ sprite.pen
    /\ screen.text # <<>>

\* the names the palette's options are known by
PaletteNames == <<"Black", "Blue", "Red", "Green", "Yellow">>

\* the colour of s
RGB(s) == <<s.r, s.g, s.b>>

\* the colours change_color can set
PaletteColors == {RGB(change_color(SpriteZero, o)) : o \in Palette}

\* the colour name in the status text of the last frame
ShownColorName == screen.status[4][2]

\* C12: rendered after change_color(option), the status text names the
\* colour Black, Blue, Red, Green, Yellow for the options 1 to 5; a colour
\* that is none of the palette's five is named Custom
C12_ColorNames ==
    pc = "SDL_GL_SwapWindow" =>
        /\ call.color_option \in Palette =>
               ShownColorName = PaletteNames[call.color_option]
        /\ RGB(sprite) \notin PaletteColors => ShownColorName = "Custom"

\* C12's case: the colour was white, option 5 was given, and the status text
\* says Yellow
C12_Witness ==
    /\ pc = "SDL_GL_SwapWindow"
    /\ RGB(call.sprite) = <<1, 1, 1>>
    /\ call.color_option = 5
    /\ screen.status[4] = <<"Line Color", "Yellow">>

\* the headings a and b differ by a whole number of turns
Congruent(a, b) == (a - b) % Deg(360) = 0

\* the time the frame of this step measured, in ms
FrameTime == lastTime' - lastTime

Reduced(h) == h % Deg(360)

\* the four headings along the axes
AxisHeadings == {Deg(0), Deg(90), Deg(180), Deg(270)}

\* the point d units from (x, y) along the axis heading h, y growing downward
AlongAxis(x, y, h, d) ==
    [x |-> x + (IF h = Deg(0) THEN d ELSE IF h = Deg(180) THEN -d ELSE 0),
     y |-> y + (IF h = Deg(90) THEN -d ELSE IF h = Deg(270) THEN d ELSE 0)]

\* C14: an advance that no edge stops moves the marker 200 units per second
\* along its heading, y negated: +x at 0, smaller y at 90, -x at 180, larger y
\* at 270; with the pen down one segment from the old to the new position is
\* appended
C14_UnclampedAdvance ==
    [][(Advanced /\ Reduced(sprite'.angle) \in AxisHeadings) =>
         LET target == AlongAxis(sprite.x, sprite.y, Reduced(sprite'.angle),
                                 (200 * FrameTime) \div 1000)
         IN  BoxInside(target, windowWidth', windowHeight') =>
                 /\ sprite'.x = target.x
                 /\ sprite'.y = target.y
                 /\ sprite'.pen =>
                        /\ lineCount' = lineCount + 1
                        /\ lines'[lineCount'].x1 = sprite.x
                        /\ lines'[lineCount'].y1 = sprite.y
                        /\ lines'[lineCount'].x2 = target.x
                        /\ lines'[lineCount'].y2 = target.y]_vars

\* C14's case: from (400, 400) with heading 0 and the pen down, one second
\* has moved the marker to (600, 400) and stored the segment between the two
C14_Witness ==
    /\ frames = 1
    /\ pc = "render_scene"
    /\ lastTime = 1000
    /\ sprite.angle = 0
    /\ sprite.pen
    /\ sprite.x = 600 /\ sprite.y = 400
    /\ lineCount = 1
    /\ lines[1].x1 = 400 /\ lines[1].y1 = 400 /\ lines[1].x2 = 600 /\ lines[1].y2 = 400

\* C15: a frame that ends with the pen up, or in which the Up key is not
\* held, leaves the trail as it was, whatever keys are held and whatever pen
\* events it applied; from (10, 400) with heading 180 and the pen up, one
\* second leaves x = 25
C15_PenUpDrawsNothing ==
    [][FrameStep =>
         /\ (~sprite'.pen \/ ~keyUpPressed') => UNCHANGED trailVars
         /\ (/\ Advanced
             /\ ~sprite'.pen
             /\ sprite.x = 10 /\ sprite.y = 400
             /\ Reduced(sprite'.angle) = Deg(180)
             /\ FrameTime = 1000) => (sprite'.x = 25 /\ sprite'.y = 400)]_vars

\* C15's case: with the pen up and heading 180, one second with the Up key
\* held has moved the marker from x = 10 to x = 25 and stored nothing
C15_Witness ==
    /\ frames = 1
    /\ pc = "render_scene"
    /\ lastTime = 1000
    /\ keyUpPressed
    /\ ~sprite.pen
    /\ sprite.angle = Deg(180)
    /\ sprite.x = 25 /\ sprite.y = 400
    /\ lineCount = 0

\* a step is a call of handle_events that reaches add_line: no quit request
\* is pending, and after the events the Up key is held and the pen is down
AppendAttempt ==
    /\ FrameStep
    /\ ~\E i \in 1..Len(pending) : IsQuitRequest(pending[i])
    /\ keyUpPressed'
    /\ sprite'.pen

\* C16: an append either stores the segment behind the segments already
\* stored, within the capacity, and the frame goes on; or the buffer was full
\* and could not grow, and the process ends there with exit status 1. No step
\* is taken after that, and the trail is never longer than the capacity
C16_AppendOrDie ==
    [][/\ pc # "exited"
       /\ linesAlloc' => lineCount' <= lineCapacity'
       /\ AppendAttempt =>
            \/ /\ linesAlloc'
               /\ pc' = "render_scene"
               /\ lineCount' = lineCount + 1
               /\ SubSeq(lines', 1, lineCount) = lines
               /\ lines'[lineCount'].x2 = sprite'.x
               /\ lines'[lineCount'].y2 = sprite'.y
            \/ /\ lineCount >= lineCapacity
               /\ ~linesAlloc'
               /\ pc' = "exited"
               /\ exitCode' = 1
               /\ lines' = lines /\ lineCount' = lineCount]_vars

\* C16's case: the buffer of 50 segments was full, the growth failed and the
\* process has ended with status 1
C16_Witness ==
    /\ pc = "exited"
    /\ exitCode = 1
    /\ ~linesAlloc
    /\ lineCount = INITIAL_LINE_CAPACITY
    /\ frames = 2

\* the quads of the status text in the last frame, top to bottom
Shown == screen.text

\* C17: the status text shows exactly the lines that were rasterized, in
\* order; the first of them at y = 10 and each further one at the y of the
\* one shown before it plus that one's height plus 2, however many lines
\* between them failed
C17_FailedLinesLeaveNoGap ==
    pc = "SDL_GL_SwapWindow" =>
        /\ {Shown[k].line : k \in 1..Len(Shown)} =
               {i \in 1..Len(screen.rasterized) : screen.rasterized[i]}
        /\ \A k \in 1..Len(Shown) :
               /\ Shown[k].text = screen.status[Shown[k].line]
               /\ Shown[k].x = 10
               /\ k = 1 => Shown[k].y = 10
               /\ k > 1 => /\ Shown[k].line > Shown[k - 1].line
                           /\ Shown[k].y = Shown[k - 1].y + Shown[k - 1].h + 2

\* C17's case: the first line, 20 high, and the fourth were rasterized, the
\* two between them failed, and the fourth is shown at y = 32
C17_Witness ==
    /\ pc = "SDL_GL_SwapWindow"
    /\ screen.rasterized = <<TRUE, FALSE, FALSE, TRUE>>
    /\ Len(Shown) = 2
    /\ Shown[1].line = 1 /\ Shown[1].y = 10 /\ Shown[1].h = 20
    /\ Shown[2].line = 4 /\ Shown[2].y = 32

\* C18: every pass of the frame loop calls handle_events, then render_scene,
\* then SDL_GL_SwapWindow, once each and in this order, also the pass in which
\* handle_events returns false; the loop is entered again after the swap
\* exactly when handle_events returned true and left exactly when it returned
\* false. (Inside handle_events a failed growth of the trail ends the process.)
C18_FrameOrder ==
    [][/\ (pc = "handle_events" /\ pc' # pc) =>
            /\ FrameStep
            /\ pc' = "render_scene" \/ (pc' = "exited" /\ exitCode' = 1 /\ ~linesAlloc')
       /\ pc = "render_scene" =>
            /\ pc' = "SDL_GL_SwapWindow"
            /\ screen'.at = <<sprite.x, sprite.y>>
            /\ UNCHANGED <<frames, running, pending>>
       /\ pc = "SDL_GL_SwapWindow" =>
            /\ pc' = IF running THEN "handle_events" ELSE "cleanup"
            /\ UNCHANGED <<frames, running, pending, screen>>
       /\ (pc' = "render_scene" /\ pc # pc') => pc = "handle_events"
       /\ (pc' = "SDL_GL_SwapWindow" /\ pc # pc') => pc = "render_scene"
       /\ (pc' = "cleanup" /\ pc # pc') => (pc = "SDL_GL_SwapWindow" /\ ~running)
       /\ (pc' = "handle_events" /\ pc # pc') =>
            \/ pc = "SDL_GL_SwapWindow" /\ running
            \/ frames = 0 /\ running']_vars

\* C18's case: the only pass received D and then a quit; it has been rendered
\* (the status text says the pen is down) and presented, and the loop is left
C18_Witness ==
    /\ pc = "cleanup"
    /\ frames = 1
    /\ ~running
    /\ sprite.pen
    /\ screen.status[3] = <<"Pen", "Down">>

\* the input state after every event of the queue q has been applied to c in
\* order, the quit requests applying nothing
RECURSIVE AllApplied(_, _)
AllApplied(q, c) ==
    IF q = <<>> THEN c
    ELSE LET evt == Head(q) IN
         CASE IsQuitRequest(evt) -> AllApplied(Tail(q), c)
           [] evt.type = "SDL_KEYDOWN" -> AllApplied(Tail(q), OnKeyDown(c, evt.sym))
           [] evt.type = "SDL_KEYUP" -> AllApplied(Tail(q), OnKeyUp(c, evt.sym))
           [] evt.type = "SDL_WINDOWEVENT" -> AllApplied(Tail(q), OnWindowEvent(c, evt))
           [] OTHER -> AllApplied(Tail(q), c)

\* C19: when handle_events returns, every event that was pending at its call
\* has been taken from the queue and applied, also the events behind a quit
\* request: the pen, the colour, the held keys and the window size are those
\* after all of them
C19_AllPendingApplied ==
    [][FrameReturned =>
         LET all == AllApplied(pending, InputState)
         IN  /\ pending' = <<>>
             /\ sprite'.pen = all.sprite.pen
             /\ RGB(sprite') = RGB(all.sprite)
             /\ keyLeftPressed' = all.left
             /\ keyRightPressed' = all.right
             /\ keyUpPressed' = all.up
             /\ windowWidth' = all.w
             /\ windowHeight' = all.h]_vars

\* the places in the queue q of the key-down events of the pen keys and of
\* the colour keys
PenKeysIn(q) ==
    {i \in 1..Len(q) : q[i].type = "SDL_KEYDOWN" /\ q[i].sym \in {"d", "u"}}
ColorKeysIn(q) ==
    {i \in 1..Len(q) :
        q[i].type = "SDL_KEYDOWN" /\ q[i].sym \in {"1", "2", "3", "4", "5"}}

\* the colour each colour key stands for
KeyColor(sym) ==
    CASE sym = "1" -> <<0, 0, 0>>
      [] sym = "2" -> <<0, 0, 1>>
      [] sym = "3" -> <<1, 0, 0>>
      [] sym = "4" -> <<0, 1, 0>>
      [] sym = "5" -> <<1, 1, 0>>

\* C20: the events a frame takes are applied in arrival order: after the
\* drain the pen is as the last pen key among them says, the colour is that
\* of the last colour key and the window size that of the last resize; a
\* kind with no event among them leaves its value as it was
C20_LastEventWins ==
    [][FrameStep =>
         /\ IF PenKeysIn(Consumed) = {}
            THEN sprite'.pen = sprite.pen
            ELSE sprite'.pen = (Consumed[Max(PenKeysIn(Consumed))].sym = "d")
         /\ IF ColorKeysIn(Consumed) = {}
            THEN RGB(sprite') = RGB(sprite)
            ELSE RGB(sprite') = KeyColor(Consumed[Max(ColorKeysIn(Consumed))].sym)
         /\ IF ResizesIn(Consumed) = {}
            THEN windowWidth' = windowWidth /\ windowHeight' = windowHeight
            ELSE LET last == Consumed[Max(ResizesIn(Consumed))]
                 IN  windowWidth' = last.data1 /\ windowHeight' = last.data2]_vars

\* C20's case: events have been drained in two frames; the pen is up and the
\* colour red, as D then U and 2 then 3 leave them, after a frame that showed
\* the colour black
C20_Witness ==
    /\ frames = 2
    /\ pc = "render_scene"
    /\ pending = <<>>
    /\ ~sprite.pen
    /\ screen.status[3] = <<"Pen", "Up">>
    /\ screen.status[4] = <<"Line Color", "Black">>
    /\ RGB(sprite) = <<1, 0, 0>>

\* a step is a call of handle_events that read a quit request and returned
\* false
QuitFrame == FrameReturned /\ ~running'

\* C21: a frame that reads a quit request turns and moves nothing and stores
\* no segment: heading, position and trail are as before the frame, whatever
\* arrow keys are held and whatever time has passed
C21_QuitFrameIsStill ==
    [][QuitFrame =>
         /\ sprite'.angle = sprite.angle
         /\ sprite'.x = sprite.x
         /\ sprite'.y = sprite.y
         /\ lineCount' = lineCount
         /\ lines' = lines]_vars

\* C21's case: the quit arrived in a frame of one second with the left and
\* up keys held and the pen down; the marker is where it started, at heading
\* 315, and the trail is empty
C21_Witness ==
    /\ pc = "exited"
    /\ exitCode = 0
    /\ frames = 1
    /\ lastTime = 1000
    /\ keyLeftPressed /\ keyUpPressed
    /\ sprite.pen
    /\ sprite.angle = Deg(315)
    /\ sprite.x = 400 /\ sprite.y = 400
    /\ lineCount = 0

\* the places in the queue q of the key-down and key-up events of the key sym
KeyEventsIn(q, sym) ==
    {i \in 1..Len(q) : q[i].type \in {"SDL_KEYDOWN", "SDL_KEYUP"} /\ q[i].sym = sym}

\* whether the key sym is held after the events of q, having been held or not
\* before them
HeldAfter(q, sym, before) ==
    IF KeyEventsIn(q, sym) = {} THEN before
    ELSE q[Max(KeyEventsIn(q, sym))].type = "SDL_KEYDOWN"

\* the coordinate v kept so that a box of half-size half stays in 0..size
KeptIn(v, half, size) ==
    IF v - half < 0 THEN half ELSE IF v + half > size THEN size - half ELSE v

\* C22: an arrow key is held from its key-down to its key-up, over any number
\* of frames. A frame that does not quit and ends its drain with Left (Right)
\* held turns by +90 (-90) degrees per second once, and with Up held moves
\* 200 units per second once, stopped by the edges; a frame that ends its
\* drain with the key not held, also one in which the key went down and up,
\* does not turn (move)
C22_HeldKeysActEveryFrame ==
    [][FrameStep =>
         /\ keyLeftPressed' = HeldAfter(Consumed, "LEFT", keyLeftPressed)
         /\ keyRightPressed' = HeldAfter(Consumed, "RIGHT", keyRightPressed)
         /\ keyUpPressed' = HeldAfter(Consumed, "UP", keyUpPressed)
         /\ (FrameReturned /\ running') =>
              /\ Congruent(sprite'.angle,
                           sprite.angle
                           + (IF keyLeftPressed' THEN 90 * FrameTime ELSE 0)
                           - (IF keyRightPressed' THEN 90 * FrameTime ELSE 0))
              /\ (~keyLeftPressed' /\ ~keyRightPressed') => sprite'.angle = sprite.angle
              /\ IF keyUpPressed'
                 THEN LET target == AlongAxis(sprite.x, sprite.y, Reduced(sprite'.angle),
                                              (200 * FrameTime) \div 1000)
                      IN  /\ sprite'.x = KeptIn(target.x, 25, windowWidth')
                          /\ sprite'.y = KeptIn(target.y, 25, windowHeight')
                 ELSE /\ sprite'.x = sprite.x
                      /\ sprite'.y = sprite.y
                      /\ UNCHANGED trailVars]_vars

\* C22's case: Up went down in the first frame and no event came in the
\* second; each of the two frames of one second moved the marker, from 400
\* to 600 and on to the right edge
C22_Witness ==
    /\ frames = 2
    /\ pc = "render_scene"
    /\ lastTime = 2000
    /\ keyUpPressed
    /\ sprite.angle = 0
    /\ sprite.x = WINDOW_WIDTH - 25
    /\ screen.at = <<600, 400>>

\* C23: the pen changes only in a step that processes a key-down of D or U,
\* and the colour only in a step that processes a key-down of 1 to 5: key-up
\* events, other key-downs, resizes, frames without events, the movement and
\* the rendering leave both alone, so a D or a digit that stays held does
\* nothing more in later frames
C23_PenAndColorOnlyOnKeyDown ==
    [][/\ sprite'.pen # sprite.pen => (FrameStep /\ PenKeysIn(Consumed) # {})
       /\ RGB(sprite') # RGB(sprite) => (FrameStep /\ ColorKeysIn(Consumed) # {})]_vars

\* C23's case: two frames have passed, the queue is empty again, and the pen
\* is still down and the colour still red
C23_Witness ==
    /\ frames = 2
    /\ pc = "render_scene"
    /\ pending = <<>>
    /\ sprite.pen
    /\ RGB(sprite) = <<1, 0, 0>>
    /\ keyUpPressed
    /\ windowWidth = 300

\* n is 50 doubled some number of times
RECURSIVE IsDoubledCapacity(_)
IsDoubledCapacity(n) ==
    \/ n = INITIAL_LINE_CAPACITY
    \/ n > INITIAL_LINE_CAPACITY /\ n % 2 = 0 /\ IsDoubledCapacity(n \div 2)

\* C24: the capacity of the trail buffer is 50 doubled some number of times
\* and the count of segments lies between 0 and the capacity, in every state;
\* the capacity changes only in a frame that calls add_line and finds the
\* count equal to the capacity, and it then exactly doubles, whether or not
\* realloc then succeeds; every other step leaves it alone
C24_CapacityDoublesWhenFull ==
    [][/\ IsDoubledCapacity(lineCapacity) /\ IsDoubledCapacity(lineCapacity')
       /\ 0 <= lineCount /\ lineCount <= lineCapacity
       /\ 0 <= lineCount' /\ lineCount' <= lineCapacity'
       /\ lineCapacity' # lineCapacity =>
            /\ AppendAttempt
            /\ lineCount = lineCapacity
            /\ lineCapacity' = 2 * lineCapacity
       /\ (AppendAttempt /\ lineCount < lineCapacity) =>
            lineCapacity' = lineCapacity]_vars

\* C24's case: the fifty-first segment has been stored and the capacity has
\* gone from 50 to 100
C24_Witness ==
    /\ linesAlloc
    /\ lineCount = INITIAL_LINE_CAPACITY + 1
    /\ Len(lines) = lineCount
    /\ lineCapacity = 100
    /\ pc = "render_scene"

\* C25: rendering changes neither the marker's position, heading, pen and
\* colour, nor the segments, the count and the capacity of the trail, nor the
\* stored size of the window; it draws the segments in the order they were
\* stored, first to last, and the sprite after them
C25_RenderOnlyReads ==
    [][pc = "render_scene" =>
         /\ UNCHANGED <<sprite, lines, lineCount, lineCapacity, linesAlloc,
                        windowWidth, windowHeight>>
         /\ screen'.drawn = lines
         /\ Len(screen'.calls) = lineCount + 1
         /\ \A i \in 1..lineCount : screen'.calls[i] = [draw |-> "segment", n |-> i]
         /\ screen'.calls[lineCount + 1].draw = "sprite"]_vars

\* C25's case: a trail of fifty segments, black ones and then red ones, has
\* been rendered with the sprite as the fifty-first draw call
C25_Witness ==
    /\ pc = "SDL_GL_SwapWindow"
    /\ lineCount = INITIAL_LINE_CAPACITY
    /\ lines[1].r = 0
    /\ lines[lineCount].r = 1
    /\ Len(screen.calls) = lineCount + 1
    /\ screen.calls[lineCount + 1].draw = "sprite"
    /\ screen.at = <<sprite.x, sprite.y>>

\* C26: the stored size of the window changes only in a step that processes
\* a resize event, and is then the payload of that event (of the last one,
\* when the step processes several); key events, other window events,
\* turning, moving, appending and rendering leave it alone
C26_SizeOnlyFromResize ==
    [][IF FrameStep /\ ResizesIn(Consumed) # {}
       THEN /\ windowWidth' = Consumed[Max(ResizesIn(Consumed))].data1
            /\ windowHeight' = Consumed[Max(ResizesIn(Consumed))].data2
       ELSE UNCHANGED <<windowWidth, windowHeight>>]_vars

\* C26's case: the window was resized to 1024 x 768, a later frame has drawn
\* a segment, and the size is still 1024 x 768 when it has been rendered
C26_Witness ==
    /\ frames = 2
    /\ pc = "SDL_GL_SwapWindow"
    /\ windowWidth = 1024
    /\ windowHeight = 768
    /\ lineCount = 1
    /\ sprite.x = 600
    /\ screen.textProj = <<1024, 768>>

\* C27: from the start of the frame loop on, the projection in force is the
\* one of the stored window size, and every frame that has been rendered was
\* drawn, trail, marker and status text, under the projection of the size
\* stored at that time
C27_ProjectionMatchesSize ==
    /\ pc \in {"handle_events", "render_scene", "SDL_GL_SwapWindow"} =>
           projection = <<windowWidth, windowHeight>>
    /\ pc = "SDL_GL_SwapWindow" =>
           /\ screen.proj = <<windowWidth, windowHeight>>
           /\ screen.textProj = <<windowWidth, windowHeight>>

\* C27's case: after the start at 800 x 800 the window was resized to
\* 300 x 200 and the frame has been rendered under the projection of 300 x 200
C27_Witness ==
    /\ pc = "SDL_GL_SwapWindow"
    /\ stepsRun[Len(stepsRun)] = "load_sprite"
    /\ windowWidth = 300
    /\ windowHeight = 200
    /\ screen.proj = <<300, 200>>
    /\ running

\* C28: a segment is appended only by a frame whose advance changed the
\* marker's position; a frame with Up held and the pen down that leaves the
\* position as it was (no time elapsed, or the marker held at an edge)
\* appends none, so no stored segment has equal endpoints
C28_AppendOnlyOnMovement ==
    [][/\ lineCount' > lineCount => <<sprite'.x, sprite'.y>> # <<sprite.x, sprite.y>>
       /\ \A i \in 1..lineCount' :
              <<lines'[i].x1, lines'[i].y1>> # <<lines'[i].x2, lines'[i].y2>>]_vars

\* C29: the deltaTime of every pass, the first one too, is the time that
\* went by since the pass before (since the loop was entered, for the first
\* pass), taken as the difference of the two readings of the 32-bit counter
\* modulo 2^32
C29_DeltaTimeIsTimeSinceLastPass ==
    [][FrameStep => call'.deltaTime = FromMs(call'.elapsed)]_vars

\* the passes after the first: the difference modulo 2^32 is the time since
\* the pass before, also when the counter has wrapped or carried in between
C29_LaterPassesExact ==
    [][(FrameStep /\ frames >= 1) =>
         /\ call'.deltaTime = FromMs(call'.elapsed)
         /\ lastTime' = call'.ticks]_vars

\* a later pass across the wrap: the reading before was 2^32 - 100, this one
\* is 150, and the deltaTime of 250 ms moved the marker by 50 units
C29_WrapReached ==
    /\ frames = 2
    /\ lastTime = U32(0, 150)
    /\ call.deltaTime = U32(0, 250)
    /\ keyUpPressed
    /\ sprite.x = 450

\* C30: in every state of the program the marker's colour is one of the
\* five of the palette, every stored segment has a palette colour, and the
\* status text of every rendered frame names one of the five, never Custom
C30_ColorAlwaysInPalette ==
    /\ ColorName(sprite) # "Custom"
    /\ \A i \in 1..lineCount : ColorName(lines[i]) # "Custom"
    /\ screen # NoScreen => ShownColorName # "Custom"

\* C30's case: the colour was changed to yellow, a yellow segment has been
\* stored, and the rendered status text says Yellow
C30_Witness ==
    /\ pc = "SDL_GL_SwapWindow"
    /\ RGB(sprite) = <<1, 1, 0>>
    /\ lineCount = 1
    /\ RGB(lines[1]) = <<1, 1, 0>>
    /\ ShownColorName = "Yellow"

\* the heading h after the left rotation of a frame of dt ms, if Left is held
TurnedLeft(h, dt, held) == IF held THEN fmodf(h + 90 * dt, Deg(360)) ELSE h

\* the heading h after the right rotation of a frame of dt ms, if Right is held
TurnedRight(h, dt, held) == IF held THEN fmodf(h - 90 * dt + Deg(360), Deg(360)) ELSE h

\* C31: a frame that does not quit applies its events first, then the left
\* rotation, then the right rotation, then the advance, then the append: the
\* heading is the old one turned left and then right as the keys stand after
\* the events; the marker advances along that new heading; and a segment is
\* appended exactly if Up is held and the pen is down after the events, from
\* the old to the new position in the colour the events left
C31_OrderInsideFrame ==
    [][(FrameReturned /\ running') =>
         /\ sprite'.angle =
                TurnedRight(TurnedLeft(sprite.angle, FrameTime, keyLeftPressed'),
                            FrameTime, keyRightPressed')
         /\ (keyUpPressed' /\ Reduced(sprite'.angle) \in AxisHeadings) =>
                LET target == AlongAxis(sprite.x, sprite.y, Reduced(sprite'.angle),
                                        (200 * FrameTime) \div 1000)
                IN  /\ sprite'.x = KeptIn(target.x, 25, windowWidth')
                    /\ sprite'.y = KeptIn(target.y, 25, windowHeight')
         /\ IF keyUpPressed' /\ sprite'.pen
            THEN /\ lineCount' = lineCount + 1
                 /\ lines'[lineCount'] = [x1 |-> sprite.x, y1 |-> sprite.y,
                                          x2 |-> sprite'.x, y2 |-> sprite'.y,
                                          r |-> sprite'.r, g |-> sprite'.g,
                                          b |-> sprite'.b]
            ELSE UNCHANGED <<lines, lineCount>>]_vars

\* C31's case: with Left and Up held at heading 0, the first frame, of one
\* second, has turned the marker to 90 and moved it up the window, not to the
\* right, and the segment it stored is red, the colour its own events set
C31_Witness ==
    /\ frames = 1
    /\ pc = "render_scene"
    /\ lastTime = 1000
    /\ keyLeftPressed /\ ~keyRightPressed /\ keyUpPressed
    /\ sprite.angle = Deg(90)
    /\ sprite.x = 400
    /\ sprite.y = 200
    /\ lineCount = 1
    /\ lines[1] = [x1 |-> 400, y1 |-> 400, x2 |-> 400, y2 |-> 200,
                   r |-> 1, g |-> 0, b |-> 0]

\* the two ends of a segment
StartOf(line) == <<line.x1, line.y1>>
EndOf(line) == <<line.x2, line.y2>>

\* C32: the segment a frame appends starts at the marker's position before
\* the frame and ends at its position after it, and nothing between two
\* frames moves the marker or touches the trail; so when consecutive frames
\* append, each segment starts where the one before ends: as long as every
\* frame so far has appended, the trail is a connected polyline ending at the
\* marker
C32_StrokeIsConnected ==
    [][/\ lineCount' = lineCount + 1 =>
            /\ EndOf(lines'[lineCount']) = <<sprite'.x, sprite'.y>>
            /\ StartOf(lines'[lineCount']) = <<sprite.x, sprite.y>>
       /\ ~FrameStep => /\ <<sprite'.x, sprite'.y>> = <<sprite.x, sprite.y>>
                        /\ UNCHANGED <<lines, lineCount>>
       /\ (lineCount' > 0 /\ lineCount' = frames') =>
            /\ \A i \in 1..(lineCount' - 1) :
                   StartOf(lines'[i + 1]) = EndOf(lines'[i])
            /\ EndOf(lines'[lineCount']) = <<sprite'.x, sprite'.y>>]_vars

\* C32's case: two frames of one second with Left and Up held and the pen
\* down have drawn a corner: up from (400,400) to (400,200), then left to
\* (200,200), where the marker is
C32_Witness ==
    /\ frames = 2
    /\ lineCount = 2
    /\ StartOf(lines[1]) = <<400, 400>>
    /\ EndOf(lines[1]) = <<400, 200>>
    /\ StartOf(lines[2]) = <<400, 200>>
    /\ EndOf(lines[2]) = <<200, 200>>
    /\ <<sprite.x, sprite.y>> = <<200, 200>>
    /\ pc = "SDL_GL_SwapWindow"

\* the rotation block has run with both keys held
BothTurned == pc = "rotated" /\ keyLeftPressed /\ keyRightPressed

\* the distance of the headings a and b around the circle, in units of
\* 2^-20 degree
AngleBetween(a, b) ==
    LET d == (a - b) % F32(360)
    IN  IF d <= F32(180) THEN d ELSE F32(360) - d

\* C33 as stated: with both keys held, from every heading h in [0, 360) and
\* for every deltaTime with 90 * deltaTime < 360, the heading after the frame
\* is h
C33_RotationsCancelExactly ==
    BothTurned => sprite.angle = call.sprite.angle

\* C33 as amended: with both keys held, from every heading h in [0, 360) and
\* for every deltaTime with 90 * deltaTime < 360, the heading after the frame
\* lies in [0, 360) and differs from h, around the circle, by no more than
\* 2^-14 degree: the rounding of the float sums, which are taken at
\* magnitudes up to 720
C33_RotationsCancelWithinRounding ==
    BothTurned =>
        /\ 0 <= sprite.angle /\ sprite.angle < F32(360)
        /\ AngleBetween(sprite.angle, call.sprite.angle) <= 64

\* C33's case: from the heading 5 + 2^-20 degrees a frame of 125 ms with both
\* keys held has left the heading 5
C33_Witness ==
    /\ BothTurned
    /\ call.sprite.angle = F32(5) + 1
    /\ call.eighths = 1
    /\ sprite.angle = F32(5)

====
